---- MODULE Spec2Model ----
(***************************************************************************)
(* A model of the goose workflow engine.                                   *)
(*                                                                         *)
(*  - SpecGraph: the graph engine of goose/core.py (Flow.generate and      *)
(*    Flow.regenerate over Nodes whose arguments reference other Nodes,    *)
(*    run as asyncio tasks in a TaskGroup).                                *)
(*  - Spec: the run engine of goose/_internal (Flow.start_run scopes,      *)
(*    FlowRun node-state table, Task calls with input-hash memoization,    *)
(*    the run store).                                                      *)
(*  - SpecHash: Task.__hash_task_call as a pure function over bounded      *)
(*    argument values.                                                     *)
(***************************************************************************)
EXTENDS Integers, Sequences, FiniteSets, TLC

VARIABLES
    \* ---- graph engine (goose/core.py) ----
    arguments,   \* Node.arguments: node -> set of Nodes found in its arguments
    flow_nodes,  \* Flow._nodes: the Nodes registered in the Flow
    status,      \* the asyncio task of node.generate() in the current call
    result,      \* Node._result: 0 is NoResult, k > 0 the k-th value produced
    gpc,         \* position of the caller inside Flow.generate / Flow.regenerate
    target,      \* the target of the Flow.regenerate in progress (0: none)
    sorter,      \* the TopologicalSorter: its graph and the nodes marked done
    queue,       \* the event loop's ready queue of tasks created but not begun
    invoked,     \* nodes whose task body was begun during the current call
    calls,       \* number of top-level calls made so far
    conversation,     \* Node._conversation: "none", or "default" for a Conversation
                      \* whose messages list is the default of the parameter
    results,          \* Conversation.results of each node's conversation
    default_messages, \* the list that is the default of Conversation's `messages`
    \* ---- Task.__hash_task_call on its own (goose/_internal/task.py) ----
    h_args,      \* the (args, kwargs) of the call that produced the stored hash
    h_args2,     \* the (args, kwargs) of the next call on the same NodeState
    h_state,     \* the NodeState of the two calls
    h_pc,        \* how many of the two calls were made
    h_invoked,   \* whether the task body was invoked by the latest call
    \* ---- run engine (goose/_internal/flow.py, state.py, task.py, store.py) ----
    store,       \* InMemoryFlowRunStore._runs: run id -> serialized run
    runs,        \* the FlowRun objects created so far, by object number
    frames,      \* the start_run scopes now open, innermost last
    current,     \* _current_flow_run: the number of the current FlowRun, 0 for None
    pass,        \* the Flow.generate / Flow.regenerate call in progress or last made
    npass,       \* number of passes and refinements begun so far
    \* ---- FlowRun.dump / FlowRun.load on their own ----
    d_run,       \* a FlowRun
    d_out,       \* FlowRun.load(FlowRun.dump(d_run)), once computed
    \* ---- Task operations on the current run (goose/_internal/task.py) ----
    t_run,       \* the current FlowRun, started
    t_last,      \* the latest Task operation: its kind, node, outcome
    t_ops,       \* number of Task operations made so far
    \* ---- the run engine of goose/flow.py: Task.__call__ and Task.jam ----
    j_run,       \* FlowRun._node_states: (task name, index) -> NodeState
    j_ops,       \* number of operations made so far
    \* ---- Conversation(messages=...) of goose/flow.py on its own ----
    c_msgs,      \* the message sequence given to the constructor
    c_out,       \* "none" before the call, then "accepted" or "rejected"
    c_state,     \* the same for ConversationState(messages=...) of goose/types
    \* ---- Node.get_inbound_nodes on its own (goose/core.py) ----
    w_heap,      \* the objects reachable from Node.arguments: kind and contents
    w_out,       \* what the walk did: not made yet, raised, or the Nodes returned
    \* ---- Flow.load_state on its own (goose/core.py) ----
    l_names,     \* Node.name of each node of Flow._nodes, in the order added
    l_in,        \* flow_state.nodes: the NodeStates given to load_state
    l_nodes,     \* what each node holds: its result and its conversation
    l_out,       \* "none" before the call, then "loaded" or "raised"
    \* ---- concurrent Task.__call__ on one run (goose/_internal/task.py) ----
    k_run,       \* the current FlowRun, started
    k_inv,       \* the invocations made so far: where each is and what it holds
    k_scope      \* number of FlowRun.start calls made on the run

gvars == <<arguments, flow_nodes, status, result, gpc, target, sorter, queue, invoked, calls,
           conversation, results, default_messages>>

hvars == <<h_args, h_args2, h_state, h_pc, h_invoked>>

rvars == <<store, runs, frames, current, pass, npass>>

dvars == <<d_run, d_out>>

tvars == <<t_run, t_last, t_ops>>

jvars == <<j_run, j_ops>>

cvars == <<c_msgs, c_out, c_state>>

wvars == <<w_heap, w_out>>

lvars == <<l_names, l_in, l_nodes, l_out>>

kvars == <<k_run, k_inv, k_scope>>

nvars == <<tvars, jvars, cvars, wvars, lvars, kvars>>

vars == <<gvars, hvars, rvars, dvars, nvars>>

(***************************************************************************)
(* Bounds                                                                  *)
(***************************************************************************)
MaxNodes == 3
MaxCalls == 3
MaxScopes == 2    \* start_run scopes entered in one behaviour
MaxDepth == 2     \* start_run scopes open at once
MaxPasses == 3    \* Flow.generate / Flow.regenerate / Task.refine calls in one behaviour

Nodes == 1..MaxNodes
NoResult == 0

NoSorter == [nodes |-> {}, preds |-> [n \in Nodes |-> {}], passed |-> {}]

\* The graph engine before any call, with no dependencies.
GraphIdle ==
    /\ arguments = [n \in Nodes |-> {}]
    /\ flow_nodes = Nodes
    /\ status = [n \in Nodes |-> "new"]
    /\ result = [n \in Nodes |-> NoResult]
    /\ gpc = "idle"
    /\ target = 0
    /\ sorter = NoSorter
    /\ queue = <<>>
    /\ invoked = {}
    /\ calls = 0
    /\ conversation = [n \in Nodes |-> "none"]
    /\ results = [n \in Nodes |-> <<>>]
    /\ default_messages = <<>>

(***************************************************************************)
(* Values, text and hashing: goose/_internal/task.py                       *)
(*                                                                         *)
(* Text and byte strings are sequences of characters.  A Python value is a *)
(* record [t, v]: t its kind, v its payload.                               *)
(***************************************************************************)
StrV(s)    == [t |-> "str",   v |-> s]
IntV(i)    == [t |-> "int",   v |-> <<i>>]
BytesV(b)  == [t |-> "bytes", v |-> b]
ListV(xs)  == [t |-> "list",  v |-> xs]     \* a list, tuple or set, in iteration order
DictV(kvs) == [t |-> "dict",  v |-> kvs]    \* a dict: its <<key, value>> items in order
ModelV(js) == [t |-> "model", v |-> js]     \* a BaseModel: its model_dump_json() text
AgentV(i) == [t |-> "agent", v |-> <<i>>]  \* an Agent object, i its identity

Digit(d) == CASE d = 0 -> "0" [] d = 1 -> "1" [] d = 2 -> "2" [] d = 3 -> "3"
              [] d = 4 -> "4" [] d = 5 -> "5" [] d = 6 -> "6" [] d = 7 -> "7"
              [] d = 8 -> "8" [] d = 9 -> "9"

DigitValue(c) == CHOOSE d \in 0..9 : Digit(d) = c

IsDigit(c) == \E d \in 0..9 : Digit(d) = c

\* str(i) of a non-negative int
RECURSIVE IntToStr(_)
IntToStr(i) == IF i < 10 THEN <<Digit(i)>> ELSE IntToStr(i \div 10) \o <<Digit(i % 10)>>

\* int(s) of a text of decimal digits
RECURSIVE StrToInt(_)
StrToInt(s) ==
    IF Len(s) = 1 THEN DigitValue(s[1])
    ELSE 10 * StrToInt(SubSeq(s, 1, Len(s) - 1)) + DigitValue(s[Len(s)])

\* str(argument).encode() of a str or int argument
StrOf(a) == IF a.t = "int" THEN IntToStr(a.v[1]) ELSE a.v

\* The nested update_hash of Task.__hash_task_call.  h is the pair of byte
\* strings fed so far to <<current_hash, the default hashlib.sha256() object of
\* the parameter current_hash>>.  The BaseModel branch calls
\* update_hash(argument.model_dump_json()) without current_hash, so the text is
\* fed to the default object.
RECURSIVE update_hash(_, _)
update_hash_model(argument, h) == <<h[1], h[2] \o argument.v>>

\* Mutant of update_hash_agent: the identity of the Agent is fed as well.
update_hash_agent_identity(argument, h) ==
    <<h[1] \o <<"A", "G", "E", "N", "T", Digit(argument.v[1])>>, h[2]>>

\* The Agent branch: current_hash.update(b"AGENT")
update_hash_agent(argument, h) == <<h[1] \o <<"A", "G", "E", "N", "T">>, h[2]>>

update_hash_items(items, h) ==
    IF items = <<>> THEN h
    ELSE update_hash(ListV(Tail(items)), update_hash(Head(items), h))

update_hash(argument, h) ==
    CASE argument.t = "list"  -> update_hash_items(argument.v, h)
      [] argument.t = "dict"  ->
            IF argument.v = <<>> THEN h
            ELSE update_hash(DictV(Tail(argument.v)),
                             update_hash(Head(argument.v)[2],
                                         update_hash(Head(argument.v)[1], h)))
      [] argument.t = "model" -> update_hash_model(argument, h)
      [] argument.t = "bytes" -> <<h[1] \o argument.v, h[2]>>
      [] argument.t = "agent" -> update_hash_agent(argument, h)
      [] OTHER                -> <<h[1] \o StrOf(argument), h[2]>>

\* int(result.hexdigest(), 16) of the bytes fed to a SHA-256 object: SHA-256 is
\* taken to be injective and never 0, so the digest is the fed bytes, marked.
Digest(fed) == <<"#">> \o fed

\* The last_hash of a NodeState that no call has filled yet: the int 0.
ZeroHash == <<>>

\* Task.__hash_task_call(*args, **kwargs): args is the tuple of positional
\* arguments, kwargs the dict of keyword arguments.
hash_task_call(args, kwargs) ==
    Digest(update_hash(kwargs, update_hash(args, <<<<>>, <<>>>>))[1])

(***************************************************************************)
(* NodeState and Task.generate: goose/_internal/state.py, task.py          *)
(***************************************************************************)

\* FlowRun.get for a key the table does not hold: an empty NodeState.
EmptyNodeState(task_name, index) ==
    [task_name |-> task_name, index |-> index,
     user_messages |-> <<>>, result_messages |-> <<>>,
     context |-> <<>>, last_hash |-> ZeroHash]

\* The new_hash of an add_result call that gives none (new_hash=None).
NoHash == <<"None">>

\* Mutant of add_result: the hash is set and no result is added.
add_result_hash_only(state, res, new_hash, overwrite) ==
    [state EXCEPT !.last_hash = IF new_hash = NoHash THEN @ ELSE new_hash]

\* NodeState.add_result
add_result(state, res, new_hash, overwrite) ==
    LET rm == IF overwrite /\ Len(state.result_messages) > 0
              THEN [state.result_messages EXCEPT ![Len(state.result_messages)] = res]
              ELSE Append(state.result_messages, res)
    IN  [state EXCEPT !.result_messages = rm,
                      !.last_hash = IF new_hash = NoHash THEN @ ELSE new_hash]

\* Mutant of add_user_message: the message replaces the earlier ones.
add_user_message_only(state, message) == [state EXCEPT !.user_messages = <<message>>]

\* NodeState.add_user_message
add_user_message(state, message) == [state EXCEPT !.user_messages = Append(@, message)]

\* NodeState.set_context
set_context(state, context) == [state EXCEPT !.context = context]

\* NodeState.result succeeds: the conversation holds a result.
HasResult(state) == Len(state.result_messages) > 0

\* NodeState.result
ResultOf(state) == state.result_messages[Len(state.result_messages)]

\* Mutant of MustInvoke: the body is invoked whatever the hash.
MustInvokeAlways(state, state_hash) == TRUE

\* The test of Task.generate: the task body is invoked when the hash of the
\* call differs from the state's last_hash.
MustInvoke(state, state_hash) == state_hash # state.last_hash

(***************************************************************************)
(* FlowRun: goose/_internal/state.py                                       *)
(***************************************************************************)
EmptyMap == [x \in {} |-> {}]

\* d[k] = v of a Python dict
Put(d, k, v) == [x \in DOMAIN d \cup {k} |-> IF x = k THEN v ELSE d[x]]

NoArgs == 0     \* FlowRun._flow_arguments is None
NoAgent == 0    \* FlowRun._agent is None

\* NodeState.model_dump_json and NodeState.model_validate_json
ToJson(state) == <<"json", state>>
FromJson(text) == text[2]

\* FlowArguments.model_dump and flow_arguments_model.model_validate
model_dump(fa) == [content |-> fa]
model_validate(d) == d.content

\* FlowRun.__init__
NewFlowRun ==
    [node_states |-> EmptyMap, last_requested_indices |-> EmptyMap,
     flow_name |-> "", id |-> 0, agent |-> NoAgent,
     flow_arguments |-> NoArgs, loaded |-> FALSE]

\* FlowRun.get
get(run, task_name, index) ==
    IF <<task_name, index>> \in DOMAIN run.node_states
    THEN FromJson(run.node_states[<<task_name, index>>])
    ELSE EmptyNodeState(task_name, index)

\* Mutant of upsert_node_state: the state is stored under every index of its
\* task that the run holds.
upsert_node_state_task(run, state) ==
    [run EXCEPT !.node_states =
        [k \in DOMAIN @ \cup {<<state.task_name, state.index>>} |->
            IF k[1] = state.task_name THEN ToJson(state) ELSE @[k]]]

\* FlowRun.upsert_node_state
upsert_node_state(run, state) ==
    [run EXCEPT !.node_states = Put(@, <<state.task_name, state.index>>, ToJson(state))]

\* Mutant of next_index: one counter is shared by all tasks.
next_index_shared(run, task_name) ==
    LET lri == run.last_requested_indices
    IN  IF DOMAIN lri = {} THEN 0
        ELSE 1 + (CHOOSE m \in {lri[t] : t \in DOMAIN lri} :
                      \A t \in DOMAIN lri : lri[t] <= m)

\* FlowRun.get_next: the counter of the task is advanced (or set to 0 on its
\* first use) and the NodeState of that index is looked up.
next_index(run, task_name) ==
    IF task_name \notin DOMAIN run.last_requested_indices THEN 0
    ELSE run.last_requested_indices[task_name] + 1

\* Mutant of get_next_run: the counter of the task is set on its first use and
\* never advanced.
get_next_run_first(run, task_name) ==
    [run EXCEPT !.last_requested_indices = Put(@, task_name, 0)]

get_next_run(run, task_name) ==
    [run EXCEPT !.last_requested_indices = Put(@, task_name, next_index(run, task_name))]

\* FlowRun.start
start(run, flow_name, run_id, agent) ==
    [run EXCEPT !.last_requested_indices = EmptyMap, !.flow_name = flow_name,
                !.id = run_id, !.agent = agent]

\* FlowRun.end
end(run) ==
    [run EXCEPT !.last_requested_indices = EmptyMap, !.flow_name = "",
                !.id = 0, !.agent = NoAgent]

\* What Flow.generate does to the run before it calls the flow body:
\* set_flow_arguments, and nothing else (the index counters are left alone).
begin_pass(run, fa) == [run EXCEPT !.flow_arguments = fa]

\* Mutant of FormatKey: the key joined with ":", as goose/flow.py writes it.
FormatKeyColon(k) == k[1] \o <<":">> \o IntToStr(k[2])

\* The key of a node state in the serialized run: f"{k[0]},{k[1]}"
FormatKey(k) == k[1] \o <<",">> \o IntToStr(k[2])

\* str.split(sep)
RECURSIVE Split(_, _)
Split(text, sep) ==
    IF \A i \in 1..Len(text) : text[i] # sep THEN <<text>>
    ELSE LET i == CHOOSE j \in 1..Len(text) :
                     text[j] = sep /\ \A m \in 1..(j - 1) : text[m] # sep
         IN  <<SubSeq(text, 1, i - 1)>> \o Split(SubSeq(text, i + 1, Len(text)), sep)

\* `task_name, index = key.split(","); int(index)` of FlowRun.load succeeds
KeyParses(key) ==
    LET parts == Split(key, ",")
    IN  /\ Len(parts) = 2
        /\ parts[2] # <<>>
        /\ \A i \in 1..Len(parts[2]) : IsDigit(parts[2][i])

ParseKey(key) == LET parts == Split(key, ",") IN <<parts[1], StrToInt(parts[2])>>

\* FlowRun.dump: the serialized run.  json.dumps of a dict of texts and
\* json.loads are taken as inverse of each other, so the serialized run is the
\* dict itself; of two node states with the same formatted key one is kept.
dump(run) ==
    [node_states |->
        [key \in {FormatKey(k) : k \in DOMAIN run.node_states} |->
            run.node_states[CHOOSE k \in DOMAIN run.node_states : FormatKey(k) = key]],
     flow_arguments |-> model_dump(run.flow_arguments)]

\* FlowRun.load: ok is FALSE when a key does not parse (ValueError).
load(serialized) ==
    IF \A key \in DOMAIN serialized.node_states : KeyParses(key)
    THEN [ok  |-> TRUE,
          run |-> [NewFlowRun EXCEPT
                     !.node_states =
                        [k \in {ParseKey(key) : key \in DOMAIN serialized.node_states} |->
                            serialized.node_states[
                                CHOOSE key \in DOMAIN serialized.node_states :
                                    ParseKey(key) = k]],
                     !.flow_arguments = model_validate(serialized.flow_arguments),
                     !.loaded = TRUE]]
    ELSE [ok |-> FALSE, run |-> NewFlowRun]

(***************************************************************************)
(* The run store: goose/_internal/store.py                                 *)
(***************************************************************************)
\* InMemoryFlowRunStore.save
save(st, run_id, serialized) == Put(st, run_id, serialized)

\* The run Flow.start_run gets for a run id: the store's get returns the
\* FlowRun loaded from the serialized run saved under the id, or None.
store_has(st, run_id) == run_id \in DOMAIN st

store_get(st, run_id) == load(st[run_id])

(***************************************************************************)
(* The flow of the run engine: two calls of one task on the flow argument, *)
(* then a task on the list of their results                                *)
(***************************************************************************)
TaskWord == <<"w">>
TaskSent == <<"s">>

FlowTasks == <<TaskWord, TaskWord, TaskSent>>

\* The keyword arguments of the pos-th task call of the flow body.
KwargsOf(pos, fa, locals, agent) ==
    IF FlowTasks[pos] = TaskWord
    THEN DictV(<< <<StrV(<<"n">>), IntV(fa)>> >>)
    ELSE DictV(<< <<StrV(<<"g">>), AgentV(agent)>>,
                  <<StrV(<<"w">>), ListV(<<locals[1], locals[2]>>)>> >>)

\* The result the body of the pos-th task call returns when invoked in the
\* n-th pass.  The word task asks the backend, whose every answer is a new
\* value, named by the pass and position that produced it; the sentence task
\* joins the words it was given.
BodyResult(pos, locals, n) ==
    IF FlowTasks[pos] = TaskWord
    THEN ModelV(<<Digit(n), Digit(pos)>>)
    ELSE ModelV(locals[1].v \o locals[2].v)

IdlePass ==
    [active |-> FALSE, kind |-> "none", run |-> 0, fa |-> NoArgs, pos |-> 1,
     locals |-> <<>>, resolved |-> <<>>, bodies |-> {}, waiting |-> FALSE,
     node |-> EmptyNodeState(<<>>, 0), hash |-> ZeroHash,
     inscope |-> FALSE, repeat |-> FALSE, resumed |-> FALSE,
     same_args |-> FALSE, hits |-> {}, stale |-> FALSE,
     ran |-> {}, first |-> FALSE]

\* The run engine before any scope was entered.
RunIdle ==
    /\ store = EmptyMap
    /\ runs = <<>>
    /\ frames = <<>>
    /\ current = 0
    /\ pass = IdlePass
    /\ npass = 0

DumpIdle ==
    /\ d_run = NewFlowRun
    /\ d_out = [done |-> FALSE, ok |-> FALSE, run |-> NewFlowRun]

(***************************************************************************)
(* SpecTask: the Task operations on the nodes of the current run:          *)
(* goose/_internal/task.py, state.py                                       *)
(***************************************************************************)
MaxOps == 4       \* Task operations in one behaviour

RunIds == {1}
FlowArgs == {1, 2}

Tasks == {TaskWord, TaskSent}
Indices == 0..1

\* The test of Task.refine: the node must have been generated.
CanRefine(state) == Len(state.result_messages) > 0

\* Mutant of CanEdit: no test.
CanEditAlways(state) == TRUE

\* The test of NodeState.edit_last_result.
CanEdit(state) == Len(state.result_messages) > 0

\* Task.ask and Conversation.undo require a prior result.
CanAsk(state) == Len(state.result_messages) > 0

CanUndo(state) == Len(state.result_messages) > 0

\* Mutant of edit_last_result: the value is appended as a further result.
edit_last_result_appending(state, res) ==
    [state EXCEPT !.result_messages = Append(@, res)]

\* NodeState.edit_last_result, the test passed
edit_last_result(state, res) ==
    [state EXCEPT !.result_messages =
        [i \in 1..Len(state.result_messages) |->
            IF i = Len(state.result_messages) THEN res ELSE state.result_messages[i]]]

\* NodeState.undo: Conversation.undo removes the most recent pair of user
\* message and result; a conversation without a user message has no pair.
undo(state) ==
    IF Len(state.user_messages) = 0 THEN state
    ELSE [state EXCEPT
            !.user_messages = SubSeq(@, 1, Len(@) - 1),
            !.result_messages = SubSeq(@, 1, Len(@) - 1)]

\* Task.__adapt reads result_messages[i] for each user message i before it
\* calls the agent: IndexError when there are more user messages than results.
AdaptReads(state) == Len(state.user_messages) <= Len(state.result_messages)

\* Task._retries, as the task was declared: @task(retries=1) for the word
\* task, @task for the sentence task.
retries(task) == IF task = TaskWord THEN 1 ELSE 0

\* What the latest Task operation was and did; attempts counts the invocations
\* of the task body.
NoOp ==
    [op |-> "none", prev |-> "none", task |-> <<>>, index |-> 0, table |-> EmptyMap,
     state |-> EmptyNodeState(<<>>, 0), hash |-> ZeroHash, message |-> <<>>,
     ret |-> <<>>, agent |-> FALSE, body |-> FALSE, err |-> FALSE, attempts |-> 0]

OpOf(op, task, index, state) ==
    [NoOp EXCEPT !.op = op, !.prev = t_last.op, !.task = task, !.index = index,
                 !.table = t_run.node_states, !.state = state]

TaskIdle ==
    /\ t_run = NewFlowRun
    /\ t_last = NoOp
    /\ t_ops = 0

JamIdle ==
    /\ j_run = EmptyMap
    /\ j_ops = 0

ConvIdle ==
    /\ c_msgs = <<>>
    /\ c_out = "none"
    /\ c_state = "none"

MaxObjs == 3      \* objects in the argument structure of a Node

\* The objects of an argument structure, in the order they were created; the
\* first one is the dict Node.arguments.
Objs == 1..MaxObjs

\* What __find_nodes tells apart: a Node, a dict, a list, a tuple, a set, an
\* object with a __dict__ (a BaseModel, a dataclass), and anything else (text,
\* numbers).
ObjKinds == {"node", "dict", "list", "tuple", "set", "object", "scalar"}

\* The kinds of object that Python accepts as a dict key or a set member.
Hashable == {"node", "object", "scalar"}

\* A node on which Node.load_state was not called: NoResult, no conversation.
NotLoaded == [result |-> NoResult, conversation |-> 0]

NoWalk == [done |-> FALSE, raised |-> FALSE, nodes |-> {}]

WalkIdle ==
    /\ w_heap = [kind  |-> [o \in Objs |-> "dict"],
                 items |-> [o \in Objs |-> {}],
                 keys  |-> [o \in Objs |-> {}]]
    /\ w_out = NoWalk

\* Flow.load_state not called, on a Flow of nodes of one task.
LoadIdle ==
    /\ l_names = [n \in Nodes |-> "a"]
    /\ l_in = <<>>
    /\ l_nodes = [n \in Nodes |-> NotLoaded]
    /\ l_out = "none"

RaceIdle ==
    /\ k_run = NewFlowRun
    /\ k_inv = <<>>
    /\ k_scope = 0

(***************************************************************************)
(* SpecHash: two calls of one task on the same NodeState, with arguments   *)
(* drawn from ArgValues                                                    *)
(***************************************************************************)
ArgValues ==
    {StrV(<<"a">>), StrV(<<"b">>), IntV(1), BytesV(<<"c">>),
     ModelV(<<"a">>), ModelV(<<"b">>), AgentV(1), AgentV(2),
     ListV(<<StrV(<<"a">>), StrV(<<"b">>)>>),
     ListV(<<ModelV(<<"a">>)>>), ListV(<<ModelV(<<"b">>)>>),
     DictV(<< <<StrV(<<"m">>), ModelV(<<"a">>)>> >>),
     DictV(<< <<StrV(<<"m">>), ModelV(<<"b">>)>> >>)}

\* A call T(x, k=y): one positional and one keyword argument.
CallOf(x, y) == [args |-> ListV(<<x>>), kwargs |-> DictV(<< <<StrV(<<"k">>), y>> >>)]

HashIdle ==
    /\ h_args = CallOf(StrV(<<"a">>), StrV(<<"a">>))
    /\ h_args2 = h_args
    /\ h_state = EmptyNodeState(<<"t">>, 0)
    /\ h_pc = 0
    /\ h_invoked = FALSE

InitHash ==
    /\ h_args \in {CallOf(x, y) : x \in ArgValues, y \in ArgValues}
    /\ h_args2 \in {CallOf(x, y) : x \in ArgValues, y \in ArgValues}
    /\ h_state = EmptyNodeState(<<"t">>, 0)
    /\ h_pc = 0
    /\ h_invoked = FALSE
    /\ GraphIdle
    /\ RunIdle
    /\ DumpIdle
    /\ TaskIdle
    /\ JamIdle
    /\ ConvIdle
    /\ WalkIdle
    /\ LoadIdle
    /\ RaceIdle

\* Task.generate(state, *args, **kwargs) with the body returning at once.
HashCall(call) ==
    LET state_hash == hash_task_call(call.args, call.kwargs)
    IN  /\ h_invoked' = MustInvoke(h_state, state_hash)
        /\ h_state' = IF MustInvoke(h_state, state_hash)
                      THEN add_result(h_state, ModelV(<<"r">>), state_hash, TRUE)
                      ELSE h_state

FirstCall ==
    /\ h_pc = 0
    /\ HashCall(h_args)
    /\ h_pc' = 1
    /\ UNCHANGED <<h_args, h_args2, gvars, rvars, dvars, nvars>>

SecondCall ==
    /\ h_pc = 1
    /\ HashCall(h_args2)
    /\ h_pc' = 2
    /\ UNCHANGED <<h_args, h_args2, gvars, rvars, dvars, nvars>>

NextHash == FirstCall \/ SecondCall

SpecHash == InitHash /\ [][NextHash]_vars

(***************************************************************************)
(* SpecTask: behaviours                                                    *)
(***************************************************************************)
InitTask ==
    /\ t_run = start(NewFlowRun, "flow", 1, 1)
    /\ t_last = NoOp
    /\ t_ops = 0
    /\ GraphIdle
    /\ HashIdle
    /\ RunIdle
    /\ DumpIdle
    /\ JamIdle
    /\ ConvIdle
    /\ WalkIdle
    /\ LoadIdle
    /\ RaceIdle

\* Task.__call__(n=a): get_next, Task.generate, upsert_node_state.  The body,
\* when invoked, returns or raises; Task.generate awaits it once and handles no
\* error (Task._retries is never read).
Call(task, a) ==
    /\ t_ops < MaxOps
    /\ next_index(t_run, task) \in Indices
    /\ t_ops' = t_ops + 1
    /\ LET index == next_index(t_run, task)
           run1  == get_next_run(t_run, task)
           state == get(run1, task, index)
           h     == hash_task_call(ListV(<<>>), DictV(<< <<StrV(<<"n">>), IntV(a)>> >>))
           res   == ModelV(<<"g", Digit(a), Digit(t_ops)>>)
           op    == [OpOf("call", task, index, state) EXCEPT !.hash = h]
       IN  IF MustInvoke(state, h)
           THEN \/ /\ t_run' = upsert_node_state(run1, add_result(state, res, h, TRUE))
                   /\ t_last' = [op EXCEPT !.body = TRUE, !.attempts = 1, !.ret = res]
                \/ /\ t_run' = run1
                   /\ t_last' = [op EXCEPT !.body = TRUE, !.attempts = 1, !.err = TRUE]
           ELSE /\ t_run' = upsert_node_state(run1, state)
                /\ t_last' = [op EXCEPT !.ret = ResultOf(state)]
    /\ UNCHANGED <<gvars, hvars, rvars, dvars, jvars, cvars, wvars, lvars, kvars>>

\* FlowRun.start on the run: a new scope over the same run.
Restart ==
    /\ t_ops < MaxOps
    /\ t_ops' = t_ops + 1
    /\ t_run' = start(t_run, "flow", 1, 1)
    /\ t_last' = OpOf("start", <<>>, 0, NoOp.state)
    /\ UNCHANGED <<gvars, hvars, rvars, dvars, jvars, cvars, wvars, lvars, kvars>>

\* Mutant of adapt_raised: the node state is stored as it is when the agent
\* is called.
adapt_raised_stored(run, state) == upsert_node_state(run, state)

\* The run when __adapt raises in Task.refine: node_state is the object
\* FlowRun.get made from the stored text, and upsert_node_state comes after
\* the await, so the run is what it was.
adapt_raised(run, state) == run

\* Task.refine(user_message=m, context=c, index=index); c = <<>> is no context.
\* The agent returns a result or fails.
Refine(task, index, c) ==
    /\ t_ops < MaxOps
    /\ t_ops' = t_ops + 1
    /\ LET state == get(t_run, task, index)
           m     == StrV(<<"m", Digit(t_ops)>>)
           res   == ModelV(<<"r", Digit(t_ops)>>)
           s1    == IF c = <<>> THEN state ELSE set_context(state, c)
           s2    == add_user_message(s1, m)
           op    == [OpOf("refine", task, index, state) EXCEPT !.message = m]
       IN  IF ~CanRefine(state) \/ ~AdaptReads(s2)
           THEN /\ t_last' = [op EXCEPT !.err = TRUE]
                /\ UNCHANGED t_run
           ELSE \/ /\ t_run' = upsert_node_state(t_run, add_result(s2, res, NoHash, FALSE))
                   /\ t_last' = [op EXCEPT !.agent = TRUE, !.ret = res]
                \/ /\ t_last' = [op EXCEPT !.agent = TRUE, !.err = TRUE]
                   /\ t_run' = adapt_raised(t_run, s2)
    /\ UNCHANGED <<gvars, hvars, rvars, dvars, jvars, cvars, wvars, lvars, kvars>>

\* Mutant of ask_state: the answer is added as a result.
ask_state_replacing(state, answer) == add_result(state, answer, NoHash, FALSE)

\* The node state Task.ask stores: the node's result entries and input hash
\* are those it read.
ask_state(state, answer) == state

\* Task.ask(user_message=m, index=index): the agent is asked in free text and
\* its answer is returned.
Ask(task, index) ==
    /\ t_ops < MaxOps
    /\ t_ops' = t_ops + 1
    /\ LET state  == get(t_run, task, index)
           m      == StrV(<<"m", Digit(t_ops)>>)
           answer == StrV(<<"a", Digit(t_ops)>>)
           op     == [OpOf("ask", task, index, state) EXCEPT !.message = m]
       IN  IF ~CanAsk(state)
           THEN /\ t_last' = [op EXCEPT !.err = TRUE]
                /\ UNCHANGED t_run
           ELSE \/ /\ t_run' = upsert_node_state(t_run, ask_state(state, answer))
                   /\ t_last' = [op EXCEPT !.agent = TRUE, !.ret = answer]
                \/ /\ t_last' = [op EXCEPT !.agent = TRUE, !.err = TRUE]
                   /\ UNCHANGED t_run
    /\ UNCHANGED <<gvars, hvars, rvars, dvars, jvars, cvars, wvars, lvars, kvars>>

\* Task.edit(result=res, index=index)
Edit(task, index) ==
    /\ t_ops < MaxOps
    /\ t_ops' = t_ops + 1
    /\ LET state == get(t_run, task, index)
           res   == ModelV(<<"e", Digit(t_ops)>>)
           op    == OpOf("edit", task, index, state)
       IN  IF ~CanEdit(state)
           THEN /\ t_last' = [op EXCEPT !.err = TRUE]
                /\ UNCHANGED t_run
           ELSE /\ t_run' = upsert_node_state(t_run, edit_last_result(state, res))
                /\ t_last' = [op EXCEPT !.ret = res]
    /\ UNCHANGED <<gvars, hvars, rvars, dvars, jvars, cvars, wvars, lvars, kvars>>

\* Task.undo(index=index)
Undo(task, index) ==
    /\ t_ops < MaxOps
    /\ t_ops' = t_ops + 1
    /\ LET state == get(t_run, task, index)
           op    == OpOf("undo", task, index, state)
       IN  IF ~CanUndo(state)
           THEN /\ t_last' = [op EXCEPT !.err = TRUE]
                /\ UNCHANGED t_run
           ELSE /\ t_run' = upsert_node_state(t_run, undo(state))
                /\ t_last' = op
    /\ UNCHANGED <<gvars, hvars, rvars, dvars, jvars, cvars, wvars, lvars, kvars>>

NextTask ==
    \/ \E task \in Tasks : \E a \in FlowArgs : Call(task, a)
    \/ Restart
    \/ \E task \in Tasks : \E index \in Indices : \E c \in {<<>>, <<"c">>} :
          Refine(task, index, c)
    \/ \E task \in Tasks : \E index \in Indices : Ask(task, index)
    \/ \E task \in Tasks : \E index \in Indices : Edit(task, index)
    \/ \E task \in Tasks : \E index \in Indices : Undo(task, index)

SpecTask == InitTask /\ [][NextTask]_vars

(***************************************************************************)
(* SpecConv: the validator of Conversation.messages of goose/flow.py, over *)
(* sequences of message kinds                                              *)
(***************************************************************************)
MaxLen == 5       \* messages in a sequence given to Conversation

Kinds == {"user", "result"}

\* The loop `for message in messages[1:]` of the validator: rest is what is
\* left to visit, last_message_type the kind of the message before it.
RECURSIVE AlternatesFrom(_, _)
AlternatesFrom(rest, last_message_type) ==
    IF rest = <<>> THEN TRUE
    ELSE IF Head(rest) = last_message_type THEN FALSE
    ELSE AlternatesFrom(Tail(rest), Head(rest))

\* Mutant of alternates_starting_with_result: no test of the first message.
alternates_any_start(messages) ==
    IF Len(messages) = 0 THEN TRUE
    ELSE AlternatesFrom(Tail(messages), messages[1])

\* Conversation.alternates_starting_with_result: TRUE when the messages are
\* returned, FALSE when Honk is raised.
alternates_starting_with_result(messages) ==
    IF Len(messages) = 0 THEN TRUE
    ELSE IF messages[1] = "user" THEN FALSE
    ELSE AlternatesFrom(Tail(messages), messages[1])

\* ConversationState.alternates_starting_with_result of goose/types: the loop
\* is `for message in messages`, so it begins at the first message, with the
\* kind of the first message as last_message_type.
state_alternates_starting_with_result(messages) ==
    IF Len(messages) = 0 THEN TRUE
    ELSE IF messages[1] = "user" THEN FALSE
    ELSE AlternatesFrom(messages, messages[1])

InitConv ==
    /\ c_msgs \in UNION {[1..n -> Kinds] : n \in 0..MaxLen}
    /\ c_out = "none"
    /\ c_state = "none"
    /\ GraphIdle
    /\ HashIdle
    /\ RunIdle
    /\ DumpIdle
    /\ TaskIdle
    /\ JamIdle
    /\ WalkIdle
    /\ LoadIdle
    /\ RaceIdle

\* Conversation(messages=c_msgs)
Construct ==
    /\ c_out = "none"
    /\ c_out' = IF alternates_starting_with_result(c_msgs) THEN "accepted" ELSE "rejected"
    /\ UNCHANGED <<c_msgs, c_state, gvars, hvars, rvars, dvars, tvars, jvars, wvars, lvars, kvars>>

\* ConversationState(messages=c_msgs)
ConstructState ==
    /\ c_state = "none"
    /\ c_state' = IF state_alternates_starting_with_result(c_msgs)
                  THEN "accepted" ELSE "rejected"
    /\ UNCHANGED <<c_msgs, c_out, gvars, hvars, rvars, dvars, tvars, jvars, wvars, lvars, kvars>>

NextConv == Construct \/ ConstructState

SpecConv == InitConv /\ [][NextConv]_vars

(***************************************************************************)
(* SpecJam: Task.__call__ and Task.jam on the current run of goose/flow.py *)
(***************************************************************************)

\* A message of a conversation: a UserMessage or a GooseResponse.
UserM(v) == [kind |-> "user", v |-> v]
ResultM(v) == [kind |-> "result", v |-> v]

KindsOf(messages) == [i \in 1..Len(messages) |-> messages[i].kind]

\* FlowRun.get for a key the run does not hold.
JEmptyNodeState(task_name, index) ==
    [task_name |-> task_name, index |-> index, messages |-> <<>>,
     context |-> <<>>, last_input_hash |-> ZeroHash]

\* NodeState.add_result of goose/flow.py
j_add_result(state, res, new_input_hash, overwrite) ==
    LET ms == IF overwrite /\ Len(state.messages) > 0
              THEN [state.messages EXCEPT ![Len(state.messages)] = ResultM(res)]
              ELSE Append(state.messages, ResultM(res))
    IN  [state EXCEPT !.messages = ms,
                      !.last_input_hash = IF new_input_hash = NoHash THEN @
                                          ELSE new_input_hash]

\* NodeState.add_user_message of goose/flow.py
j_add_user_message(state, message) ==
    [state EXCEPT !.messages = Append(@, UserM(message))]

\* FlowRun.get: the stored NodeState is validated (model_validate_json runs the
\* validator of Conversation.messages); ok is FALSE when it raises.
j_get(run, task_name, index) ==
    IF <<task_name, index>> \in DOMAIN run.node_states
    THEN LET state == FromJson(run.node_states[<<task_name, index>>])
         IN  [ok |-> alternates_starting_with_result(KindsOf(state.messages)),
              state |-> state]
    ELSE [ok |-> TRUE, state |-> JEmptyNodeState(task_name, index)]

\* FlowRun.add
j_add(run, state) ==
    [run EXCEPT !.node_states = Put(@, <<state.task_name, state.index>>, ToJson(state))]

\* Task.__hash_input: the hash of the text of the arguments, taken injective
\* and never 0.
hash_input(a) == <<"#", Digit(a)>>

InitJam ==
    /\ j_run = [node_states |-> EmptyMap, last_requested_indices |-> EmptyMap]
    /\ j_ops = 0
    /\ GraphIdle
    /\ HashIdle
    /\ RunIdle
    /\ DumpIdle
    /\ TaskIdle
    /\ ConvIdle
    /\ WalkIdle
    /\ LoadIdle
    /\ RaceIdle

\* Task.__call__(a) of goose/flow.py: get_next, Task.generate, FlowRun.add.
JamCall(task, a) ==
    /\ j_ops < MaxOps
    /\ next_index(j_run, task) \in Indices
    /\ j_ops' = j_ops + 1
    /\ LET index == next_index(j_run, task)
           run1  == get_next_run(j_run, task)
           got   == j_get(run1, task, index)
           res   == <<"g", Digit(a), Digit(j_ops)>>
       IN  IF ~got.ok THEN j_run' = run1
           ELSE IF hash_input(a) # got.state.last_input_hash
           THEN \/ j_run' = j_add(run1, j_add_result(got.state, res, hash_input(a), TRUE))
                \/ j_run' = run1
           ELSE j_run' = j_add(run1, got.state)
    /\ UNCHANGED <<gvars, hvars, rvars, dvars, tvars, cvars, wvars, lvars, kvars>>

\* FlowRun.start: a new scope over the run.
JamRestart ==
    /\ j_ops < MaxOps
    /\ j_run.last_requested_indices # EmptyMap
    /\ j_ops' = j_ops + 1
    /\ j_run' = [j_run EXCEPT !.last_requested_indices = EmptyMap]
    /\ UNCHANGED <<gvars, hvars, rvars, dvars, tvars, cvars, wvars, lvars, kvars>>

\* Task.jam(user_message=m, context=c, index=index), the task having an
\* adapter: the adapter returns a result or fails.
Jam(task, index, c) ==
    /\ j_ops < MaxOps
    /\ j_ops' = j_ops + 1
    /\ LET got == j_get(j_run, task, index)
           s1  == IF c = <<>> THEN got.state ELSE [got.state EXCEPT !.context = c]
           s2  == j_add_user_message(s1, <<"m", Digit(j_ops)>>)
           res == <<"r", Digit(j_ops)>>
       IN  IF ~got.ok THEN UNCHANGED j_run
           ELSE \/ j_run' = j_add(j_run, j_add_result(s2, res, NoHash, FALSE))
                \/ UNCHANGED j_run
    /\ UNCHANGED <<gvars, hvars, rvars, dvars, tvars, cvars, wvars, lvars, kvars>>

NextJam ==
    \/ \E task \in Tasks : \E a \in FlowArgs : JamCall(task, a)
    \/ JamRestart
    \/ \E task \in Tasks : \E index \in Indices : \E c \in {<<>>, <<"c">>} :
          Jam(task, index, c)

SpecJam == InitJam /\ [][NextJam]_vars

(***************************************************************************)
(* Graph engine: goose/core.py                                             *)
(***************************************************************************)

\* Node.get_inbound_nodes: the Nodes found in the node's arguments.
get_inbound_nodes(node) == arguments[node]

\* The ascending sequence of the elements of a set of nodes.
RECURSIVE SeqOf(_)
SeqOf(S) ==
    IF S = {} THEN <<>>
    ELSE LET m == CHOOSE x \in S : \A y \in S : x <= y
         IN  <<m>> \o SeqOf(S \ {m})

\* TopologicalSorter.get_ready: the nodes of the sorter's graph not yet handed
\* out whose predecessors have all been marked done.
get_ready(s) ==
    {n \in s.nodes \ s.passed : s.preds[n] \subseteq s.passed}

\* TopologicalSorter.is_active
is_active(s) == s.passed # s.nodes

\* The nodes that reach n along predecessor edges of the sorter's graph.
RECURSIVE Ancestors(_, _, _)
Ancestors(s, frontier, seen) ==
    LET next == (UNION {s.preds[n] : n \in frontier}) \ seen
    IN  IF next = {} THEN seen ELSE Ancestors(s, next, seen \cup next)

\* Mutant of find_cycle: only a node that is its own predecessor is found.
find_cycle_self(s) == \E n \in s.nodes : n \in s.preds[n]

\* TopologicalSorter._find_cycle, by which prepare() raises CycleError: some
\* node of the graph is among its own ancestors.
find_cycle(s) == \E n \in s.nodes : n \in Ancestors(s, {n}, {})

\* The TopologicalSorter of a graph {node: inbound nodes} given for the nodes in
\* keys: a predecessor that is no key is a node of the sorter as well, without
\* predecessors.  SorterNodes is defined with Flow.regenerate below.
SorterOf(keys) ==
    LET preds == [n \in Nodes |-> IF n \in keys THEN get_inbound_nodes(n) ELSE {}]
    IN  [nodes  |-> keys \cup UNION {preds[k] : k \in keys},
         preds  |-> preds,
         passed |-> {}]

\* Flow.generate, up to the scheduling loop: the graph of the inbound nodes of
\* every registered node is handed to a TopologicalSorter, whose prepare()
\* raises CycleError when the graph has a cycle.
GenerateCall ==
    /\ gpc \in {"idle", "returned", "raised", "cycle_error"}
    /\ calls < MaxCalls
    /\ calls' = calls + 1
    /\ target' = 0
    /\ sorter' = SorterOf(flow_nodes)
    /\ status' = [n \in Nodes |-> "new"]
    /\ invoked' = {}
    /\ queue' = <<>>
    /\ gpc' = IF find_cycle(SorterOf(flow_nodes)) THEN "cycle_error" ELSE "dispatch"
    /\ UNCHANGED <<arguments, flow_nodes, result, conversation, results, default_messages>>
    /\ UNCHANGED <<hvars, rvars, dvars, nvars>>

\* Mutant of TasksToCreate: a task for the target too.
TasksToCreateAll(ready_nodes, t) == ready_nodes

\* The ready nodes for which a task is created: in Flow.regenerate every one
\* but the target (in Flow.generate there is no target: t = 0).
TasksToCreate(ready_nodes, t) == ready_nodes \ {t}

\* The messages of a node's conversation; none while it has no conversation.
MessagesOf(n) == IF conversation[n] = "none" THEN <<>> ELSE default_messages

\* One iteration of the scheduling loop of Flow.generate / Flow.regenerate:
\* get_ready, create_task(node.generate()) for each ready node (the target of a
\* regenerate excepted), sorter.done(*ready_nodes).  Nothing is awaited between
\* create_task and done.  With no ready node the loop yields with sleep(0).
ScheduleLoop ==
    /\ gpc = "dispatch"
    /\ LET ready == get_ready(sorter)
           made  == TasksToCreate(ready, target)
       IN  IF ~is_active(sorter)
           THEN /\ gpc' = "await"
                /\ UNCHANGED <<sorter, status, queue>>
           ELSE IF ready # {}
           THEN /\ status' = [n \in Nodes |-> IF n \in made THEN "created" ELSE status[n]]
                /\ queue' = queue \o SeqOf(made)
                /\ sorter' = [sorter EXCEPT !.passed = @ \cup ready]
                /\ gpc' = gpc
           ELSE UNCHANGED <<sorter, status, queue, gpc>>
    /\ UNCHANGED <<arguments, flow_nodes, result, target, invoked, calls, conversation, results, default_messages>>
    /\ UNCHANGED <<hvars, rvars, dvars, nvars>>

\* TaskGroup._abort, run by the done callback of a failed task: every task that
\* has not finished is cancelled and the failure is raised from the async-with
\* block.  st is the status of the tasks when the callback runs.
Abort(st) ==
    /\ status' = [n \in Nodes |->
                    IF st[n] \in {"created", "running"} THEN "cancelled" ELSE st[n]]
    /\ queue' = <<>>
    /\ gpc' = "raised"

\* The event loop begins the oldest created task: Node.generate calls the task
\* body with the node's arguments.  The body reads the result of each Node among
\* its arguments (Node.result raises when there is none), then either returns,
\* suspends on a backend call, or fails.  Every task was created before the
\* caller first awaited, so the first steps of all of them are in the loop's
\* ready queue ahead of the done callback of a task that fails in its first
\* step: the group is aborted once the last of them took its first step.
BeginTask ==
    /\ gpc = "await"
    /\ queue # <<>>
    /\ LET n == Head(queue)
           FirstStep(st, res) ==
               /\ result' = res
               /\ IF Tail(queue) = <<>> /\ \E f \in Nodes : st[f] = "failed"
                  THEN Abort(st)
                  ELSE /\ status' = st
                       /\ queue' = Tail(queue)
                       /\ UNCHANGED gpc
       IN  /\ invoked' = invoked \cup {n}
           /\ IF \E d \in arguments[n] : result[d] = NoResult
              THEN FirstStep([status EXCEPT ![n] = "failed"], result)
              ELSE \/ FirstStep([status EXCEPT ![n] = "running"], result)
                   \/ FirstStep([status EXCEPT ![n] = "done"],
                                [result EXCEPT ![n] = calls])
                   \/ FirstStep([status EXCEPT ![n] = "failed"], result)
    /\ UNCHANGED <<arguments, flow_nodes, target, sorter, calls, conversation, results, default_messages>>
    /\ UNCHANGED <<hvars, rvars, dvars, nvars>>

\* A suspended task body is resumed by its backend call, after the first steps
\* of the created tasks, and returns or fails.
ResumeTask(n) ==
    /\ gpc = "await"
    /\ queue = <<>>
    /\ status[n] = "running"
    /\ \/ /\ status' = [status EXCEPT ![n] = "done"]
          /\ result' = [result EXCEPT ![n] = calls]
          /\ UNCHANGED <<queue, gpc>>
       \/ /\ Abort([status EXCEPT ![n] = "failed"])
          /\ UNCHANGED result
    /\ UNCHANGED <<arguments, flow_nodes, target, sorter, invoked, calls, conversation, results, default_messages>>
    /\ UNCHANGED <<hvars, rvars, dvars, nvars>>

\* The TaskGroup block is left once every created task has finished.
GroupExit ==
    /\ gpc = "await"
    /\ queue = <<>>
    /\ \A n \in Nodes : status[n] \notin {"created", "running"}
    /\ gpc' = "returned"
    /\ UNCHANGED <<arguments, flow_nodes, status, result, target, sorter, queue, invoked, calls,
                   conversation, results, default_messages>>
    /\ UNCHANGED <<hvars, rvars, dvars, nvars>>

\* The reverse-dependency map built by Flow.regenerate: the nodes that have the
\* given node among their inbound nodes.
reversed_graph(node) == {n \in flow_nodes : node \in get_inbound_nodes(n)}

\* The test `outbound_node not in subgraph` of Flow.regenerate.  It is made
\* after subgraph[outbound_node].add(node), and subgraph is a defaultdict, so
\* it reads the subgraph that already holds the key.
NotInSubgraph(outbound_node, before, after) == outbound_node \notin after.keys

\* The body of `for outbound_node in outbound_nodes` of Flow.regenerate, over
\* the outbound nodes still to visit; yields the queue and the subgraph.
RECURSIVE VisitOutbound(_, _, _, _)
VisitOutbound(outs, node, q, sub) ==
    IF outs = <<>> THEN <<q, sub>>
    ELSE LET o     == Head(outs)
             after == [keys  |-> sub.keys \cup {o},
                       preds |-> [sub.preds EXCEPT ![o] = @ \cup {node}]]
             q2    == IF NotInSubgraph(o, sub, after) THEN Append(q, o) ELSE q
         IN  VisitOutbound(Tail(outs), node, q2, after)

\* The `while len(queue) > 0` loop of Flow.regenerate.
RECURSIVE BuildSubgraph(_, _)
BuildSubgraph(q, sub) ==
    IF q = <<>> THEN sub
    ELSE LET node == Head(q)
             r    == VisitOutbound(SeqOf(reversed_graph(node)), node, Tail(q), sub)
         IN  BuildSubgraph(r[1], r[2])

EmptySubgraph == [keys |-> {}, preds |-> [n \in Nodes |-> {}]]

\* The nodes of a TopologicalSorter built from a predecessor map: its keys and
\* every predecessor named in it.
SorterNodes(sub) == sub.keys \cup UNION {sub.preds[k] : k \in sub.keys}

\* Flow.regenerate up to the await of target.regenerate(): the target must
\* hold a result; a target without a conversation gets Conversation(results=
\* [target.result]), whose messages list is the default of the parameter (one
\* list for all calls), and the message, named by the number of the call, is
\* appended to the messages of the target's conversation.  The results list
\* of the conversation is the one made for it here.
RegenerateCall(t) ==
    /\ gpc \in {"idle", "returned", "raised", "cycle_error"}
    /\ calls < MaxCalls
    /\ result[t] # NoResult
    /\ calls' = calls + 1
    /\ target' = t
    /\ status' = [n \in Nodes |-> "new"]
    /\ invoked' = {}
    /\ queue' = <<>>
    /\ sorter' = NoSorter
    /\ gpc' = "regen"
    /\ conversation' = [conversation EXCEPT ![t] = "default"]
    /\ results' = IF conversation[t] = "none"
                  THEN [results EXCEPT ![t] = <<result[t]>>]
                  ELSE results
    /\ default_messages' = Append(default_messages, calls + 1)
    /\ UNCHANGED <<arguments, flow_nodes, result>>
    /\ UNCHANGED <<hvars, rvars, dvars, nvars>>

\* Mutant of RegenerateTarget: the downstream nodes are scheduled with the
\* target's result left as it was.
RegenerateTargetLate ==
    /\ gpc = "regen"
    /\ LET sub == BuildSubgraph(<<target>>, EmptySubgraph)
       IN  IF sub.keys = {}
           THEN /\ gpc' = "returned"
                /\ UNCHANGED sorter
           ELSE /\ sorter' = [nodes  |-> SorterNodes(sub),
                              preds  |-> sub.preds,
                              passed |-> {}]
                /\ gpc' = "dispatch"
    /\ UNCHANGED <<arguments, flow_nodes, status, result, target, queue, invoked, calls,
                   conversation, results, default_messages>>
    /\ UNCHANGED <<hvars, rvars, dvars, nvars>>

\* target.regenerate() returns (the regenerator produced the new result) and
\* Flow.regenerate builds the downstream subgraph and its sorter; or the
\* regenerator fails and the error leaves Flow.regenerate.  Node.regenerate
\* assigns the new result to Node._result alone: nothing is appended to the
\* results of the conversation.
RegenerateTarget ==
    /\ gpc = "regen"
    /\ \/ /\ result' = [result EXCEPT ![target] = calls]
          /\ LET sub == BuildSubgraph(<<target>>, EmptySubgraph)
             IN  IF sub.keys = {}
                 THEN /\ gpc' = "returned"
                      /\ UNCHANGED sorter
                 ELSE /\ sorter' = [nodes  |-> SorterNodes(sub),
                                    preds  |-> sub.preds,
                                    passed |-> {}]
                      /\ gpc' = "dispatch"
       \/ /\ gpc' = "raised"
          /\ UNCHANGED <<result, sorter>>
    /\ UNCHANGED <<arguments, flow_nodes, status, target, queue, invoked, calls,
                   conversation, results, default_messages>>
    /\ UNCHANGED <<hvars, rvars, dvars, nvars>>

InitGraph ==
    /\ arguments \in {a \in [Nodes -> SUBSET Nodes] : \A n \in Nodes : \A d \in a[n] : d < n}
    /\ flow_nodes = Nodes
    /\ status = [n \in Nodes |-> "new"]
    /\ result = [n \in Nodes |-> NoResult]
    /\ gpc = "idle"
    /\ target = 0
    /\ sorter = NoSorter
    /\ queue = <<>>
    /\ invoked = {}
    /\ calls = 0
    /\ conversation = [n \in Nodes |-> "none"]
    /\ results = [n \in Nodes |-> <<>>]
    /\ default_messages = <<>>
    /\ HashIdle
    /\ RunIdle
    /\ DumpIdle
    /\ TaskIdle
    /\ JamIdle
    /\ ConvIdle
    /\ WalkIdle
    /\ LoadIdle
    /\ RaceIdle

NextGraph ==
    \/ GenerateCall
    \/ ScheduleLoop
    \/ BeginTask
    \/ \E n \in Nodes : ResumeTask(n)
    \/ GroupExit
    \/ \E t \in Nodes : RegenerateCall(t)
    \/ RegenerateTarget

SpecGraph == InitGraph /\ [][NextGraph]_vars

(***************************************************************************)
(* SpecBuild: Flow.generate over the graphs of arguments with a cycle and   *)
(* the ones that reference a Node the Flow does not hold                   *)
(***************************************************************************)
\* The Flows that SpecGraph leaves out.  Either some registered node reaches
\* itself through arguments: that takes an assignment to a Node's arguments
\* after construction, and every such graph is enumerated.  Or the graph is in
\* construction order, a Node built from Nodes that exist already, and one of
\* the Nodes a registered node is built from was not registered with the Flow.
InitBuild ==
    /\ arguments \in [Nodes -> SUBSET Nodes]
    /\ flow_nodes \in {Nodes} \cup {Nodes \ {n} : n \in Nodes}
    /\ \/ \E n \in flow_nodes : n \in Ancestors(SorterOf(flow_nodes), {n}, {})
       \/ /\ \A n \in Nodes : arguments[n] \subseteq 1..(n - 1)
          /\ \E n \in flow_nodes : ~(arguments[n] \subseteq flow_nodes)
    /\ status = [n \in Nodes |-> "new"]
    /\ result = [n \in Nodes |-> NoResult]
    /\ gpc = "idle"
    /\ target = 0
    /\ sorter = NoSorter
    /\ queue = <<>>
    /\ invoked = {}
    /\ calls = 0
    /\ conversation = [n \in Nodes |-> "none"]
    /\ results = [n \in Nodes |-> <<>>]
    /\ default_messages = <<>>
    /\ HashIdle
    /\ RunIdle
    /\ DumpIdle
    /\ TaskIdle
    /\ JamIdle
    /\ ConvIdle
    /\ WalkIdle
    /\ LoadIdle
    /\ RaceIdle

NextBuild ==
    \/ GenerateCall
    \/ ScheduleLoop
    \/ BeginTask
    \/ \E n \in Nodes : ResumeTask(n)
    \/ GroupExit

SpecBuild == InitBuild /\ [][NextBuild]_vars

(***************************************************************************)
(* SpecSound: Flow.generate over acyclic graphs whose task bodies never     *)
(* fail by themselves: a body fails only where Node.result raises          *)
(***************************************************************************)

\* The first step of a body that, given the results of its arguments, returns
\* or suspends.
BeginTaskSound ==
    /\ BeginTask
    /\ queue # <<>>
    /\ LET n == Head(queue)
       IN  status'[n] = "failed" => \E d \in arguments[n] : result[d] = NoResult

\* A suspended body of that kind is resumed and returns.
ResumeTaskSound(n) ==
    /\ ResumeTask(n)
    /\ status'[n] = "done"

NextSound ==
    \/ GenerateCall
    \/ ScheduleLoop
    \/ BeginTaskSound
    \/ \E n \in Nodes : ResumeTaskSound(n)
    \/ GroupExit

SpecSound == InitGraph /\ [][NextSound]_vars

(***************************************************************************)
(* SpecWalk: Node.get_inbound_nodes over every argument structure of       *)
(* MaxObjs objects                                                         *)
(***************************************************************************)

\* __find_nodes(obj, visited) of Node.get_inbound_nodes.  A Node is returned
\* without a look inside it; of a dict the values are searched; of a list, a
\* tuple and a set the items; of an object with a __dict__ the values of its
\* fields; anything else holds nothing.  visited is created and passed on but
\* never read or added to, so an object is searched every time it is met.
\* fuel is the number of calls that can still be nested: a chain of more calls
\* than there are objects has met an object twice and so never ends, and
\* Python ends it with RecursionError.
RECURSIVE find_nodes(_, _, _)
find_nodes(heap, obj, fuel) ==
    LET kind == heap.kind[obj]
        each == {find_nodes(heap, c, fuel - 1) : c \in heap.items[obj]}
    IN  IF fuel = 0 THEN [raised |-> TRUE, nodes |-> {}]
        ELSE IF kind = "node" THEN [raised |-> FALSE, nodes |-> {obj}]
        ELSE IF kind \in {"dict", "list", "tuple", "set", "object"}
        THEN IF \E r \in each : r.raised THEN [raised |-> TRUE, nodes |-> {}]
             ELSE [raised |-> FALSE, nodes |-> UNION {r.nodes : r \in each}]
        ELSE [raised |-> FALSE, nodes |-> {}]

\* Every argument structure of MaxObjs objects that Python can build.  A Node
\* and a scalar hold nothing the walk looks at; a tuple holds objects created
\* before it; set members and dict keys are hashable, and the keys of
\* Node.arguments itself are parameter names.
InitWalk ==
    /\ \E kind \in {k \in [Objs -> ObjKinds] : k[1] = "dict"} :
       \E items \in {i \in [Objs -> SUBSET Objs] :
                        \A o \in Objs :
                            /\ kind[o] \in {"node", "scalar"} => i[o] = {}
                            /\ kind[o] = "tuple" => i[o] \subseteq 1..(o - 1)
                            /\ kind[o] = "set" =>
                                  \A c \in i[o] : kind[c] \in Hashable} :
       \E keys \in {k \in [Objs -> SUBSET Objs] :
                        \A o \in Objs :
                            /\ kind[o] # "dict" => k[o] = {}
                            /\ \A c \in k[o] : kind[c] \in Hashable
                            /\ \A c \in k[1] : kind[c] = "scalar"} :
           w_heap = [kind |-> kind, items |-> items, keys |-> keys]
    /\ w_out = NoWalk
    /\ GraphIdle
    /\ HashIdle
    /\ RunIdle
    /\ DumpIdle
    /\ TaskIdle
    /\ JamIdle
    /\ ConvIdle
    /\ LoadIdle
    /\ RaceIdle

\* node.get_inbound_nodes(): __find_nodes(self.arguments)
Walk ==
    /\ ~w_out.done
    /\ LET r == find_nodes(w_heap, 1, MaxObjs)
       IN  w_out' = [done |-> TRUE, raised |-> r.raised, nodes |-> r.nodes]
    /\ UNCHANGED <<w_heap, gvars, hvars, rvars, dvars, tvars, jvars, cvars, lvars, kvars>>

SpecWalk == InitWalk /\ [][Walk]_vars

(***************************************************************************)
(* SpecRace: Task.__call__ invocations of one run in flight together, each *)
(* suspended inside its task body (goose/_internal/task.py, state.py)      *)
(***************************************************************************)

InitRace ==
    /\ k_run = start(NewFlowRun, "flow", 1, 1)
    /\ k_inv = <<>>
    /\ k_scope = 1
    /\ GraphIdle
    /\ HashIdle
    /\ RunIdle
    /\ DumpIdle
    /\ TaskIdle
    /\ JamIdle
    /\ ConvIdle
    /\ WalkIdle
    /\ LoadIdle

\* Task.__call__(n=a) up to the first suspension: get_next, the hash of the
\* call and, when it differs from the state's last_hash, the task body, which
\* suspends; otherwise the cached result is returned and the state stored.
RaceCall(task, a) ==
    /\ Len(k_inv) < MaxOps
    /\ LET run1  == get_next_run(k_run, task)
           index == run1.last_requested_indices[task]
           state == get(run1, task, index)
           h     == hash_task_call(ListV(<<>>), DictV(<< <<StrV(<<"n">>), IntV(a)>> >>))
           inv   == [task |-> task, index |-> index, scope |-> k_scope, state |-> state,
                     hash |-> h, pc |-> "body", ret |-> <<>>]
       IN  IF MustInvoke(state, h)
           THEN /\ k_run' = run1
                /\ k_inv' = Append(k_inv, inv)
           ELSE /\ k_run' = upsert_node_state(run1, state)
                /\ k_inv' = Append(k_inv, [inv EXCEPT !.pc = "cached",
                                                      !.ret = ResultOf(state)])
    /\ UNCHANGED <<k_scope, gvars, hvars, rvars, dvars, tvars, jvars, cvars, wvars, lvars>>

\* The body of the i-th invocation is resumed and returns: add_result on the
\* NodeState the invocation holds, then upsert_node_state.
RaceReturn(i) ==
    /\ k_inv[i].pc = "body"
    /\ LET res   == ModelV(<<"g", Digit(i)>>)
           state == add_result(k_inv[i].state, res, k_inv[i].hash, TRUE)
       IN  /\ k_run' = upsert_node_state(k_run, state)
           /\ k_inv' = [k_inv EXCEPT ![i] = [@ EXCEPT !.pc = "done", !.ret = res,
                                                      !.state = state]]
    /\ UNCHANGED <<k_scope, gvars, hvars, rvars, dvars, tvars, jvars, cvars, wvars, lvars>>

\* The body of the i-th invocation is resumed and fails: nothing is stored.
RaceFail(i) ==
    /\ k_inv[i].pc = "body"
    /\ k_inv' = [k_inv EXCEPT ![i] = [@ EXCEPT !.pc = "failed"]]
    /\ UNCHANGED <<k_run, k_scope, gvars, hvars, rvars, dvars, tvars, jvars, cvars, wvars,
                   lvars>>

\* The scope is left, with no invocation in flight, and the run is started
\* again: FlowRun.end, FlowRun.start.
RaceRestart ==
    /\ k_scope < MaxScopes
    /\ k_inv # <<>>
    /\ \A i \in 1..Len(k_inv) : k_inv[i].pc # "body"
    /\ k_scope' = k_scope + 1
    /\ k_run' = start(end(k_run), "flow", 1, 1)
    /\ UNCHANGED <<k_inv, gvars, hvars, rvars, dvars, tvars, jvars, cvars, wvars, lvars>>

NextRace ==
    \/ \E task \in Tasks : \E a \in FlowArgs : RaceCall(task, a)
    \/ \E i \in 1..Len(k_inv) : RaceReturn(i)
    \/ \E i \in 1..Len(k_inv) : RaceFail(i)
    \/ RaceRestart

SpecRace == InitRace /\ [][NextRace]_vars

(***************************************************************************)
(* SpecLoad: Flow.load_state on a Flow of MaxNodes nodes, over the lists    *)
(* of up to MaxNodes NodeStates                                            *)
(***************************************************************************)

\* Task.name of the tasks the nodes are made from, and a name no node has.
TaskNames == {"a", "b"}
StateNames == TaskNames \cup {"z"}

\* A NodeState of goose/core.py: v names the result and the conversation it
\* was dumped from.
LoadStates == [name : StateNames, v : Nodes]

\* next((node for node in self._nodes if node.name == node_state.name), None):
\* the first node of that name, 0 for None.
matching_node(names, states, i) ==
    LET same == {n \in Nodes : names[n] = states[i].name}
    IN  IF same = {} THEN 0
        ELSE CHOOSE n \in same : \A m \in same : n <= m

\* Node.load_state: the result parsed from result_state and the conversation
\* loaded from conversation_state.
load_state(node_state) == [result |-> node_state.v, conversation |-> node_state.v]

\* The loop of Flow.load_state from the i-th NodeState on: nodes is what the
\* nodes hold.  It stops with RuntimeError at a NodeState no node matches,
\* the nodes loaded before it staying loaded.
RECURSIVE LoadFrom(_, _, _, _)
LoadFrom(names, states, i, nodes) ==
    IF i > Len(states) THEN [out |-> "loaded", nodes |-> nodes]
    ELSE LET m == matching_node(names, states, i)
         IN  IF m = 0 THEN [out |-> "raised", nodes |-> nodes]
             ELSE LoadFrom(names, states, i + 1,
                           [nodes EXCEPT ![m] = load_state(states[i])])

InitLoad ==
    /\ l_names \in [Nodes -> TaskNames]
    /\ l_in \in UNION {[1..n -> LoadStates] : n \in 0..MaxNodes}
    /\ l_nodes = [n \in Nodes |-> NotLoaded]
    /\ l_out = "none"
    /\ GraphIdle
    /\ HashIdle
    /\ RunIdle
    /\ DumpIdle
    /\ TaskIdle
    /\ JamIdle
    /\ ConvIdle
    /\ WalkIdle
    /\ RaceIdle

\* flow.load_state(flow_state=FlowState(nodes=l_in))
Load ==
    /\ l_out = "none"
    /\ LET r == LoadFrom(l_names, l_in, 1, l_nodes)
       IN  /\ l_out' = r.out
           /\ l_nodes' = r.nodes
    /\ UNCHANGED <<l_names, l_in, gvars, hvars, rvars, dvars, tvars, jvars, cvars, wvars,
                   kvars>>

SpecLoad == InitLoad /\ [][Load]_vars

(***************************************************************************)
(* Run engine: goose/_internal/flow.py and task.py                         *)
(***************************************************************************)
Top == frames[Len(frames)]
Pop == SubSeq(frames, 1, Len(frames) - 1)

\* Mutant of StoreOnError: the save placed in a finally clause.
StoreOnErrorSaved(st, run_id, run) ==
    IF run.flow_arguments = NoArgs THEN st ELSE save(st, run_id, dump(run))

\* The store once an error has left the body of a start_run scope: the
\* exception is thrown into the generator at its yield, and the save, end and
\* set_current_flow_run statements after the yield are not run.
StoreOnError(st, run_id, run) == st

\* The current run once an error has left the body of a start_run scope.
CurrentOnError(cur, old_run) == cur

\* An error leaves the innermost open scope, if there is one.
Escape ==
    IF frames = <<>> THEN UNCHANGED <<store, frames, current>>
    ELSE /\ frames' = Pop
         /\ store' = StoreOnError(store, Top.run_id, runs[Top.run])
         /\ current' = CurrentOnError(current, Top.old_run)

\* Flow.start_run up to its yield.
StartRun(run_id) ==
    /\ ~pass.active
    /\ Len(runs) < MaxScopes
    /\ Len(frames) < MaxDepth
    /\ LET got == IF store_has(store, run_id) THEN store_get(store, run_id)
                  ELSE [ok |-> TRUE, run |-> NewFlowRun]
           obj == Len(runs) + 1
       IN  IF got.ok
           THEN /\ runs' = Append(runs, start(got.run, "flow", run_id, obj))
                /\ frames' = Append(frames, [run |-> obj, old_run |-> current,
                                             run_id |-> run_id])
                /\ current' = obj
           ELSE UNCHANGED <<runs, frames, current>>
    /\ UNCHANGED <<store, pass, npass, gvars, hvars, dvars, nvars>>

\* The body of a start_run scope ends without an error and Flow.start_run runs
\* on from its yield: save(run.dump()), run.end(), set_current_flow_run(old_run).
\* FlowRun.dump reads flow_arguments, which raises while no arguments are set.
ExitRun ==
    /\ frames # <<>>
    /\ ~pass.active
    /\ IF runs[Top.run].flow_arguments = NoArgs
       THEN /\ frames' = Pop
            /\ UNCHANGED <<store, runs, current>>
       ELSE /\ store' = save(store, Top.run_id, dump(runs[Top.run]))
            /\ runs' = [runs EXCEPT ![Top.run] = end(@)]
            /\ current' = Top.old_run
            /\ frames' = Pop
    /\ UNCHANGED <<pass, npass, gvars, hvars, dvars, nvars>>

\* The body of a start_run scope raises an error outside any pass.
RaiseInScope ==
    /\ frames # <<>>
    /\ ~pass.active
    /\ Escape
    /\ UNCHANGED <<runs, pass, npass, gvars, hvars, dvars, nvars>>

\* The scope the caller is in is the scope of the current run.
InScope == frames # <<>> /\ Top.run = current

NewPass(kind, fa) ==
    [IdlePass EXCEPT
        !.active = TRUE, !.kind = kind, !.run = current, !.fa = fa,
        !.inscope = InScope,
        !.repeat = /\ InScope
                   /\ runs[current].last_requested_indices # EmptyMap
                   /\ runs[current].flow_arguments = fa,
        !.same_args = runs[current].flow_arguments = fa,
        !.ran = pass.ran \cup {current},
        !.first = current \notin pass.ran,
        !.resumed = /\ InScope
                    /\ runs[current].loaded
                    /\ runs[current].last_requested_indices = EmptyMap
                    /\ runs[current].flow_arguments = fa]

\* Flow.generate(flow_arguments) up to the flow body's first task call; without
\* a current run it raises Honk at once.
GenerateRun(fa) ==
    /\ ~pass.active
    /\ npass < MaxPasses
    /\ npass' = npass + 1
    /\ IF current = 0
       THEN /\ pass' = [IdlePass EXCEPT !.ran = pass.ran]
            /\ Escape
            /\ UNCHANGED runs
       ELSE /\ runs' = [runs EXCEPT ![current] = begin_pass(@, fa)]
            /\ IF runs[current].agent = NoAgent
               THEN /\ pass' = [IdlePass EXCEPT !.ran = pass.ran]
                    /\ Escape
               ELSE /\ pass' = NewPass("generate", fa)
                    /\ UNCHANGED <<store, frames, current>>
    /\ UNCHANGED <<gvars, hvars, dvars, nvars>>

\* Flow.regenerate() up to the flow body's first task call; FlowRun.flow_arguments
\* raises while no arguments are set.
RegenerateRun ==
    /\ ~pass.active
    /\ npass < MaxPasses
    /\ npass' = npass + 1
    /\ IF current = 0
       THEN /\ pass' = [IdlePass EXCEPT !.ran = pass.ran]
            /\ Escape
       ELSE IF runs[current].flow_arguments = NoArgs \/ runs[current].agent = NoAgent
       THEN /\ pass' = [IdlePass EXCEPT !.ran = pass.ran]
            /\ Escape
       ELSE /\ pass' = NewPass("regenerate", runs[current].flow_arguments)
            /\ UNCHANGED <<store, frames, current>>
    /\ UNCHANGED <<runs, gvars, hvars, dvars, nvars>>

\* The pass after its pos-th task call returned res.
Advance(p, res) ==
    IF p.pos < Len(FlowTasks)
    THEN [p EXCEPT !.locals = Append(@, res), !.pos = @ + 1, !.waiting = FALSE,
                   !.node = IdlePass.node, !.hash = IdlePass.hash]
    ELSE [p EXCEPT !.locals = <<>>, !.pos = @ + 1, !.waiting = FALSE, !.active = FALSE,
                   !.node = IdlePass.node, !.hash = IdlePass.hash]

\* Task.__call__ up to the await of the task body: get_next, then Task.generate
\* hashes the call and either invokes the body or returns the stored result,
\* after which the state is upserted.  The pass notes the calls that resolved
\* a node with user messages (hits) and whether the sentence task returned a
\* stored result that is not the sentence of the words it was given (stale).
TaskCall ==
    /\ pass.active
    /\ ~pass.waiting
    /\ LET run   == runs[pass.run]
           task  == FlowTasks[pass.pos]
           index == next_index(run, task)
           run1  == get_next_run(run, task)
           state == get(run1, task, index)
           h     == hash_task_call(ListV(<<>>),
                                   KwargsOf(pass.pos, pass.fa, pass.locals, run.agent))
           cached == ResultOf(state)
           p1    == [pass EXCEPT
                       !.resolved = Append(@, index),
                       !.hits = IF state.user_messages # <<>> THEN @ \cup {pass.pos}
                                ELSE @,
                       !.stale = IF /\ task = TaskSent
                                    /\ ~MustInvoke(state, h)
                                    /\ cached # BodyResult(pass.pos, pass.locals, npass)
                                 THEN TRUE ELSE @]
       IN  IF MustInvoke(state, h)
           THEN /\ pass' = [p1 EXCEPT !.waiting = TRUE, !.node = state, !.hash = h,
                                      !.bodies = @ \cup {pass.pos}]
                /\ runs' = [runs EXCEPT ![pass.run] = run1]
           ELSE /\ pass' = Advance(p1, cached)
                /\ runs' = [runs EXCEPT ![pass.run] = upsert_node_state(run1, state)]
    /\ UNCHANGED <<store, frames, current, npass, gvars, hvars, dvars, nvars>>

\* The task body returns: Task.generate adds the result with the new hash and
\* Task.__call__ upserts the state.
BodyReturn ==
    /\ pass.active
    /\ pass.waiting
    /\ LET res == BodyResult(pass.pos, pass.locals, npass)
       IN  /\ runs' = [runs EXCEPT ![pass.run] =
                          upsert_node_state(@, add_result(pass.node, res, pass.hash, TRUE))]
           /\ pass' = Advance(pass, res)
    /\ UNCHANGED <<store, frames, current, npass, gvars, hvars, dvars, nvars>>

\* The task body raises: the error leaves Task.__call__, the flow body, the
\* pass and the scope.
BodyRaise ==
    /\ pass.active
    /\ pass.waiting
    /\ pass' = [pass EXCEPT !.active = FALSE, !.waiting = FALSE, !.locals = <<>>,
                             !.node = IdlePass.node, !.hash = IdlePass.hash]
    /\ Escape
    /\ UNCHANGED <<runs, npass, gvars, hvars, dvars, nvars>>

\* Task.refine(user_message=m, index=index) called between passes: without a
\* current run, on a node without a result, or on a run without an agent it
\* raises; else the agent returns a result, which is added and upserted, or
\* fails.
RefineRun(task, index) ==
    /\ ~pass.active
    /\ npass < MaxPasses
    /\ npass' = npass + 1
    /\ IF current = 0
       THEN /\ Escape
            /\ UNCHANGED runs
       ELSE LET state == get(runs[current], task, index)
                s2    == add_user_message(state, StrV(<<"m", Digit(npass)>>))
                res   == ModelV(<<"r", Digit(npass)>>)
            IN  IF \/ ~CanRefine(state)
                   \/ ~AdaptReads(s2)
                   \/ runs[current].agent = NoAgent
                THEN /\ Escape
                     /\ UNCHANGED runs
                ELSE \/ /\ runs' = [runs EXCEPT ![current] =
                                       upsert_node_state(@, add_result(s2, res, NoHash, FALSE))]
                        /\ UNCHANGED <<store, frames, current>>
                     \/ /\ Escape
                        /\ UNCHANGED runs
    /\ UNCHANGED <<pass, gvars, hvars, dvars, nvars>>

Init ==
    /\ RunIdle
    /\ GraphIdle
    /\ HashIdle
    /\ DumpIdle
    /\ TaskIdle
    /\ JamIdle
    /\ ConvIdle
    /\ WalkIdle
    /\ LoadIdle
    /\ RaceIdle

Next ==
    \/ \E run_id \in RunIds : StartRun(run_id)
    \/ ExitRun
    \/ RaiseInScope
    \/ \E fa \in FlowArgs : GenerateRun(fa)
    \/ RegenerateRun
    \/ TaskCall
    \/ BodyReturn
    \/ BodyRaise
    \/ \E task \in Tasks : \E index \in Indices : RefineRun(task, index)

Spec == Init /\ [][Next]_vars

(***************************************************************************)
(* SpecDump: FlowRun.load(FlowRun.dump(run)) for runs over DumpKeys        *)
(***************************************************************************)
Words == {<<"a">>, <<"b">>}

DumpKeys ==
    {<<TaskWord, 0>>, <<TaskWord, 1>>, <<TaskWord, 10>>, <<TaskSent, 0>>,
     <<<<"w", "1">>, 0>>}

StateOf(k, w) ==
    add_result(EmptyNodeState(k[1], k[2]), ModelV(w), Digest(<<"n">>), TRUE)

InitDump ==
    /\ \E K \in SUBSET DumpKeys : \E f \in [K -> Words] : \E fa \in FlowArgs :
          d_run = [NewFlowRun EXCEPT
                      !.node_states = [k \in K |-> ToJson(StateOf(k, f[k]))],
                      !.flow_arguments = fa]
    /\ d_out = [done |-> FALSE, ok |-> FALSE, run |-> NewFlowRun]
    /\ GraphIdle
    /\ HashIdle
    /\ RunIdle
    /\ TaskIdle
    /\ JamIdle
    /\ ConvIdle
    /\ WalkIdle
    /\ LoadIdle
    /\ RaceIdle

DumpLoad ==
    /\ ~d_out.done
    /\ d_out' = [done |-> TRUE, ok |-> load(dump(d_run)).ok,
                 run |-> load(dump(d_run)).run]
    /\ UNCHANGED <<d_run, gvars, hvars, rvars, nvars>>

NextDump == DumpLoad

SpecDump == InitDump /\ [][NextDump]_vars

(***************************************************************************)
(* Claims about the graph engine                                           *)
(***************************************************************************)

\* The nodes reachable from t along reverse-dependency edges (t excluded
\* unless it lies on a cycle).
RECURSIVE ReachFrom(_, _)
ReachFrom(frontier, seen) ==
    LET next == (UNION {reversed_graph(n) : n \in frontier}) \ seen
    IN  IF next = {} THEN seen ELSE ReachFrom(next, seen \cup next)

Downstream(t) == ReachFrom({t}, {})

\* C1: in Flow.generate no node's task body begins before every node it depends
\* on has completed in this call and holds a result.
C1_DependenciesCompleteBeforeStart ==
    [][ \A n \in invoked' \ invoked :
            target = 0 =>
              \A d \in arguments[n] : status[d] = "done" /\ result[d] # NoResult
      ]_vars

\* C2: when Flow.regenerate(target, message) returns, the nodes re-executed by
\* ordinary generation are exactly the nodes transitively downstream of the
\* target, the target excluded.
C2_RegenerateRunsAllDownstream ==
    (gpc = "returned" /\ target # 0) => invoked = Downstream(target) \ {target}

\* C5: a call whose arguments differ (Agent identities apart) from those that
\* produced the stored hash of a NodeState holding a result invokes the body.
SameButAgents(x, y) == x = y \/ (x.t = "agent" /\ y.t = "agent")

C5_ChangedArgumentReinvokes ==
    (h_pc = 2 /\ ~ /\ SameButAgents(h_args.args.v[1], h_args2.args.v[1])
                   /\ SameButAgents(h_args.kwargs.v[1][2], h_args2.kwargs.v[1][2]))
        => h_invoked

\* C23: two calls whose arguments are equal but for the identity of the Agent
\* passed have the same input hash, and the second of them, made on the
\* NodeState the first one filled, does not invoke the body.
C23_AgentIdentityNotHashed ==
    ( /\ h_pc = 2
      /\ SameButAgents(h_args.args.v[1], h_args2.args.v[1])
      /\ SameButAgents(h_args.kwargs.v[1][2], h_args2.kwargs.v[1][2]) )
    => /\ hash_task_call(h_args.args, h_args.kwargs)
            = hash_task_call(h_args2.args, h_args2.kwargs)
       /\ h_state.last_hash = hash_task_call(h_args2.args, h_args2.kwargs)
       /\ ~h_invoked

\* The second call was given another Agent than the first, as argument and as
\* keyword argument, and returned the stored result.
C23_Witness ==
    /\ h_pc = 2
    /\ h_args.args.v[1] = AgentV(1) /\ h_args2.args.v[1] = AgentV(2)
    /\ h_args.kwargs.v[1][2] = AgentV(2) /\ h_args2.kwargs.v[1][2] = AgentV(1)
    /\ ~h_invoked

(***************************************************************************)
(* Claims about the run engine                                             *)
(***************************************************************************)

\* The number of calls of the flow body before the k-th that call the same task.
CallsBefore(k) == Cardinality({j \in 1..(k - 1) : FlowTasks[j] = FlowTasks[k]})

\* C3: in every pass made inside a start_run scope, the N-th call of a task
\* resolves the NodeState of index N-1.
C3_IndicesRestartEachPass ==
    pass.inscope => \A k \in 1..Len(pass.resolved) : pass.resolved[k] = CallsBefore(k)

\* C24: in the first pass made on a run after it was started, the N-th call of
\* a task resolves the NodeState of index N-1, whatever other tasks were called
\* in between.
C24_FirstPassIndicesCountFromZero ==
    (pass.inscope /\ pass.first) =>
        \A k \in 1..Len(pass.resolved) : pass.resolved[k] = CallsBefore(k)

\* The first pass of a run that was loaded from the store has made all its
\* calls: the word task twice, then the sentence task.
C24_Witness ==
    /\ pass.inscope /\ pass.first /\ ~pass.active
    /\ runs[pass.run].loaded
    /\ pass.resolved = <<0, 1, 0>>

\* C4: a Flow.generate made in a scope after an earlier pass of that scope, with
\* flow arguments equal to those of that pass, invokes no task body.
C4_SecondGenerateInvokesNoBody ==
    (pass.kind = "generate" /\ pass.repeat) => pass.bodies = {}

ErrorExit == Len(frames') < Len(frames) /\ ~ExitRun

\* C8: when an error leaves the body of a start_run scope, nothing is saved:
\* the store is what it was.
C8_ErrorExitSavesNothing == [][ErrorExit => store' = store]_vars

\* A pass of a scope was ended by its third task body raising, after the first
\* two had put their results in the run, which the store does not hold.
C8_Witness ==
    /\ pass.kind # "none" /\ ~pass.active /\ pass.inscope
    /\ pass.pos = 3
    /\ Len(frames) < Len(runs)
    /\ <<TaskWord, 1>> \in DOMAIN runs[pass.run].node_states
    /\ \A id \in DOMAIN store :
          store[id].node_states # dump(runs[pass.run]).node_states

\* C9: when an error leaves the body of a start_run scope, the current run is
\* again the run that was current before the scope was entered (or none).
C9_ErrorExitRestoresCurrent == [][ErrorExit => current' = Top.old_run]_vars

\* C10: when the body of a start_run scope ends without an error, the run's
\* serialized state is saved under the run id and the run that was current
\* before the scope (or none) is current again.
C10_NormalExitSavesAndRestores ==
    [][ExitRun =>
          /\ Top.run_id \in DOMAIN store'
          /\ runs[Top.run].flow_arguments # NoArgs
          /\ store'[Top.run_id] = dump(runs[Top.run])
          /\ current' = Top.old_run
      ]_vars

(***************************************************************************)
(* Claims about the Task operations                                        *)
(***************************************************************************)

\* The node of the latest Task operation, as the run holds it now.
NodeNow == get(t_run, t_last.task, t_last.index)

\* C11: a successful Task.refine appends one user message and one result to
\* the node's conversation, earlier entries kept; the agent's value is the
\* node's result and the returned value; the last input hash is unchanged.
C11_RefineAppendsOnePair ==
    (t_last.op = "refine" /\ ~t_last.err) =>
        /\ NodeNow.user_messages = Append(t_last.state.user_messages, t_last.message)
        /\ NodeNow.result_messages = Append(t_last.state.result_messages, t_last.ret)
        /\ t_last.ret = ModelV(<<"r", Digit(t_ops - 1)>>)
        /\ ResultOf(NodeNow) = t_last.ret
        /\ NodeNow.last_hash = t_last.state.last_hash

\* A second refine of a node succeeded.
C11_Witness ==
    /\ t_last.op = "refine" /\ ~t_last.err
    /\ Len(t_last.state.user_messages) = 1
    /\ Len(NodeNow.result_messages) = 3

\* C15: Task.generate on a NodeState holding a result, called with arguments
\* whose hash is the stored one, invokes no body, returns the latest result
\* and leaves the conversation and the hash as they were.
C15_SameHashReturnsCached ==
    (t_last.op = "call" /\ HasResult(t_last.state)
        /\ t_last.hash = t_last.state.last_hash) =>
        /\ ~t_last.body /\ ~t_last.err
        /\ t_last.ret = ResultOf(t_last.state)
        /\ NodeNow = t_last.state

\* A call with the stored hash on a node whose result was refined.
C15_Witness ==
    /\ t_last.op = "call" /\ ~t_last.body
    /\ Len(t_last.state.user_messages) = 1
    /\ t_last.ret = ResultOf(NodeNow)

\* C18: Task.refine, ask, edit and undo on a node without a result fail, call
\* no agent and leave the node-state table as it was.
C18_NoResultOpsFail ==
    (t_last.op \in {"refine", "ask", "edit", "undo"} /\ ~HasResult(t_last.state)) =>
        /\ t_last.err
        /\ ~t_last.agent
        /\ t_run.node_states = t_last.table

\* An edit of a node never generated failed, in a run that holds other nodes.
C18_Witness ==
    /\ t_last.op = "edit" /\ t_last.err
    /\ ~HasResult(t_last.state)
    /\ t_run.node_states # EmptyMap

C13_StoredConversationsAlternate ==
    \A k \in DOMAIN j_run.node_states :
        LET kinds == KindsOf(FromJson(j_run.node_states[k]).messages)
        IN  /\ kinds # <<>> => kinds[1] = "result"
            /\ \A i \in 1..(Len(kinds) - 1) : kinds[i] # kinds[i + 1]

\* C14: Conversation(messages=ms) fails exactly when ms is not empty and
\* begins with a user message or has two adjacent messages of one kind.
C14_RejectsExactlyNonAlternating ==
    c_out # "none" =>
        (c_out = "rejected" <=>
            /\ c_msgs # <<>>
            /\ \/ c_msgs[1] = "user"
               \/ \E i \in 1..(Len(c_msgs) - 1) : c_msgs[i] = c_msgs[i + 1])

\* A sequence beginning with a result and alternating up to its last two
\* messages, both user messages, was rejected.
C14_Witness ==
    /\ c_out = "rejected"
    /\ c_msgs = <<"result", "user", "result", "user", "user">>

(***************************************************************************)
(* Claims about Flow.regenerate of the graph engine                        *)
(***************************************************************************)

\* The conversation of a node: whether it has one, and its messages.
ConversationOf(n) == [kind |-> conversation[n], messages |-> MessagesOf(n)]

\* C16: no step of a Flow.regenerate(target, message) call begins the body of
\* a node that is not downstream of the target, nor changes the result or
\* the conversation of such a node (the target apart).
C16_RegenerateLeavesOthersAlone ==
    [][ target' # 0 =>
          \A n \in Nodes \ (Downstream(target') \cup {target'}) :
              /\ n \notin invoked'
              /\ result'[n] = result[n]
              /\ ConversationOf(n)' = ConversationOf(n)
      ]_vars

\* C17: during a Flow.regenerate(target, message) call the target's body is
\* never begun, and the target's result changes only when its regenerator
\* returns, the message of the call being the last of its conversation.
C17_TargetBodyNeverInvoked ==
    [][ target' # 0 =>
          /\ target' \notin invoked'
          /\ (result'[target'] # result[target']) =>
                (/\ gpc = "regen"
                 /\ conversation[target] = "default"
                 /\ default_messages # <<>>
                 /\ default_messages[Len(default_messages)] = calls)
      ]_vars

\* A Flow.regenerate returned after it regenerated the target and re-ran some
\* of its dependents.
C17_Witness ==
    /\ gpc = "returned"
    /\ target # 0
    /\ invoked # {}
    /\ result[target] = calls
    /\ \A n \in invoked : result[n] = calls

C19_NoScopeOperationsFail ==
    [][ (frames = <<>> /\ npass' # npass)
        => /\ ~pass'.active
           /\ UNCHANGED <<runs, store, current>>
      ]_vars

\* The stored node states other than the one of the latest Task operation are
\* those the run held before the operation.
OthersKept ==
    /\ DOMAIN t_run.node_states \subseteq
           DOMAIN t_last.table \cup {<<t_last.task, t_last.index>>}
    /\ \A k \in DOMAIN t_last.table \ {<<t_last.task, t_last.index>>} :
           /\ k \in DOMAIN t_run.node_states
           /\ t_run.node_states[k] = t_last.table[k]

\* C21: Task.edit on a node holding a result succeeds without a call to the
\* agent and replaces the latest result with the given value; the number of
\* results, every earlier result, the user messages, the context, the last
\* input hash and every other node's state are unchanged.
C21_EditReplacesLatestResultOnly ==
    (t_last.op = "edit" /\ HasResult(t_last.state)) =>
        /\ ~t_last.err /\ ~t_last.agent /\ ~t_last.body
        /\ Len(NodeNow.result_messages) = Len(t_last.state.result_messages)
        /\ \A i \in 1..(Len(NodeNow.result_messages) - 1) :
               NodeNow.result_messages[i] = t_last.state.result_messages[i]
        /\ ResultOf(NodeNow) = t_last.ret
        /\ NodeNow.user_messages = t_last.state.user_messages
        /\ NodeNow.context = t_last.state.context
        /\ NodeNow.last_hash = t_last.state.last_hash
        /\ OthersKept

\* An edit of a refined node (two results, one user message) while the run
\* holds another node.
C21_Witness ==
    /\ t_last.op = "edit" /\ ~t_last.err
    /\ Len(t_last.state.result_messages) = 2
    /\ ResultOf(NodeNow) # ResultOf(t_last.state)
    /\ Cardinality(DOMAIN t_last.table) >= 2

\* C22: Task.refine on node (T, i), whether it succeeds or fails, leaves the
\* stored NodeState of every other index of T and of every other task as it
\* was, and stores no node under another key.
C22_RefineChangesOnlyItsNode ==
    t_last.op = "refine" => OthersKept

\* A refine of index 1 of a task succeeded while the run holds index 0 of the
\* same task and a node of the other task.
C22_Witness ==
    /\ t_last.op = "refine" /\ ~t_last.err /\ t_last.index = 1
    /\ Cardinality(DOMAIN t_last.table) = 3
    /\ NodeNow # t_last.state

\* C25: when a task body fails during Flow.generate and the call raises, every
\* task that had been created and did not finish (it was cancelled) belongs to
\* a node that depends on a failed node: the created tasks of independent nodes
\* ran to completion.
C25_IndependentTasksFinish ==
    (gpc = "raised" /\ target = 0) =>
        \A n \in Nodes :
            status[n] = "cancelled" =>
                \E f \in Nodes : status[f] = "failed" /\ n \in Downstream(f)

\* The graph of the inbound nodes of the Flow's nodes has a cycle.
CyclicFlow == \E n \in flow_nodes : n \in Downstream(n)

\* C26: on a Flow whose dependency graph has a cycle every Flow.generate call
\* ends with the cyclic-dependency error of prepare(): no task is created, no
\* body is begun and no node gets a result.
C26_CycleFailsBeforeAnyBody ==
    CyclicFlow =>
        /\ gpc \in {"idle", "cycle_error"}
        /\ invoked = {}
        /\ queue = <<>>
        /\ \A n \in Nodes : status[n] = "new" /\ result[n] = NoResult

\* A second Flow.generate failed on a cycle through two or more nodes.
C26_Witness ==
    /\ gpc = "cycle_error"
    /\ calls = 2
    /\ \A n \in Nodes : n \notin arguments[n]

\* A registered node has among its arguments a Node the Flow does not hold.
Dangling == \E n \in flow_nodes : ~(arguments[n] \subseteq flow_nodes)

\* C27: on a Flow with a node that references an unregistered Node,
\* Flow.generate fails while it builds the graph: the call never gets to
\* dispatch tasks and the body of an unregistered node is never begun.
C27_DanglingFailsAtConstruction ==
    Dangling =>
        /\ gpc \in {"idle", "cycle_error", "raised"}
        /\ invoked \subseteq flow_nodes
        /\ \A n \in Nodes \ flow_nodes : status[n] = "new" /\ result[n] = NoResult

\* The objects held anywhere inside the given ones: as value, item, field or
\* dict key, at any depth; the inside of a Node is not part of the structure.
RECURSIVE Inside(_, _)
Inside(frontier, seen) ==
    LET open == {o \in frontier : w_heap.kind[o] # "node"}
        next == (UNION {w_heap.items[o] \cup w_heap.keys[o] : o \in open}) \ seen
    IN  IF next = {} THEN seen ELSE Inside(next, seen \cup next)

\* C28: when Node.get_inbound_nodes returns, the Nodes it returns include every
\* Node held anywhere inside the node's arguments: in lists, tuples, sets, dict
\* keys, dict values and object fields, at any depth.
C28_WalkFindsEveryNode ==
    (w_out.done /\ ~w_out.raised) =>
        {o \in Inside({1}, {1}) : w_heap.kind[o] = "node"} \subseteq w_out.nodes

\* C29: Node.get_inbound_nodes returns, without raising, for every argument
\* structure, those that hold themselves directly or indirectly included.
C29_WalkAlwaysReturns ==
    w_out.done => ~w_out.raised

\* C30: a call of a task declared with retries = k surfaces an error of the
\* body only after k + 1 failed invocations of the body, and a call that
\* returns after invoking the body returns the value of one of at most k + 1
\* invocations and stores it as the node's result.
C30_ErrorAfterAllRetries ==
    (t_last.op = "call" /\ t_last.body) =>
        /\ t_last.attempts \in 1..(retries(t_last.task) + 1)
        /\ t_last.err => t_last.attempts = retries(t_last.task) + 1
        /\ ~t_last.err => ResultOf(NodeNow) = t_last.ret

\* C31: when target.regenerate() of a Flow.regenerate(target, message) call
\* returns, the target's conversation holds the message of the call and the
\* results it held when the call was made followed by the regenerated result.
C31_RegenerateAddsMessageAndResult ==
    [][ (gpc = "regen" /\ gpc' \in {"dispatch", "returned"}) =>
          /\ \E i \in 1..Len(MessagesOf(target)') : MessagesOf(target)'[i] = calls
          /\ results'[target] = Append(results[target], result'[target])
      ]_vars

\* The nodes that have the target among their arguments.
DirectDependents(t) == {d \in Nodes : t \in arguments[d]}

\* C32: the body of a node that depends directly on the target is begun, in a
\* Flow.regenerate call, only once the target holds the result regenerated by
\* that call; and when the call returns every such node holds a result
\* produced by a body begun in that call.
C32_DependentsRunOnRegeneratedTarget ==
    /\ [][ \A d \in invoked' \ invoked :
               (target' # 0 /\ d \in DirectDependents(target')) =>
                   result[target] = calls
         ]_vars
    /\ [] ((gpc = "returned" /\ target # 0) =>
              /\ result[target] = calls
              /\ \A d \in DirectDependents(target) :
                     d \in invoked /\ status[d] = "done" /\ result[d] = calls)

\* A Flow.regenerate returned whose target has two direct dependents, one of
\* them depending on the other.
C32_Witness ==
    /\ gpc = "returned"
    /\ target # 0
    /\ \E d, e \in DirectDependents(target) : d \in arguments[e]

\* C33: on an acyclic graph whose task bodies never fail by themselves,
\* Flow.generate does not raise, and when it has returned the body of every
\* registered node was begun in the call and every registered node holds a
\* result.
C33_GenerateCompletesEveryNode ==
    /\ gpc # "raised"
    /\ gpc = "returned" =>
           \A n \in flow_nodes :
               n \in invoked /\ status[n] = "done" /\ result[n] # NoResult

\* An argument with the field values of every BaseModel in it blanked.
RECURSIVE Unfield(_)
Unfield(a) ==
    CASE a.t = "model" -> ModelV(<<>>)
      [] a.t = "list"  -> ListV([i \in 1..Len(a.v) |-> Unfield(a.v[i])])
      [] a.t = "dict"  ->
            DictV([i \in 1..Len(a.v) |-> <<Unfield(a.v[i][1]), Unfield(a.v[i][2])>>])
      [] OTHER         -> a

\* Two calls that differ, and only in field values of BaseModel arguments.
DifferInFieldOnly(c, d) ==
    /\ c # d
    /\ Unfield(c.args) = Unfield(d.args)
    /\ Unfield(c.kwargs) = Unfield(d.kwargs)

\* C34: two calls that differ only in a field value of a BaseModel argument,
\* passed directly or inside a list, tuple, set or dict, have different input
\* hashes, and the second of them, made on the NodeState the first one filled,
\* invokes the body.
C34_ModelFieldChangesHash ==
    (h_pc = 2 /\ DifferInFieldOnly(h_args, h_args2)) =>
        /\ hash_task_call(h_args.args, h_args.kwargs)
              # hash_task_call(h_args2.args, h_args2.kwargs)
        /\ h_invoked

\* C35: ConversationState(messages=ms) of goose/types fails exactly when ms is
\* not empty and begins with a user message or has two adjacent messages of
\* one kind; the sequence of one result is accepted.
C35_StateRejectsExactlyNonAlternating ==
    c_state # "none" =>
        (c_state = "rejected" <=>
            /\ c_msgs # <<>>
            /\ \/ c_msgs[1] = "user"
               \/ \E i \in 1..(Len(c_msgs) - 1) : c_msgs[i] = c_msgs[i + 1])

\* C36: the user message of a Flow.regenerate(target, message) call is added to
\* the conversation of the target and of no other node: the messages of every
\* other node's conversation are after the call what they were before it.
C36_MessageStaysWithItsNode ==
    [][ calls' # calls =>
          \A n \in Nodes \ {target'} : MessagesOf(n)' = MessagesOf(n)
      ]_vars

\* C37: when the agent call of a Task.refine fails, the node-state table of the
\* run is what it was before the refine: the node holds neither the user
\* message nor the context given to the call.
C37_FailedRefineStoresNothing ==
    (t_last.op = "refine" /\ t_last.agent /\ t_last.err) =>
        /\ t_run.node_states = t_last.table
        /\ NodeNow = t_last.state
        /\ \A i \in 1..Len(NodeNow.user_messages) :
               NodeNow.user_messages[i] # t_last.message

\* The agent call of a refine of a node refined before has failed.
C37_Witness ==
    /\ t_last.op = "refine"
    /\ t_last.agent
    /\ t_last.err
    /\ Len(NodeNow.user_messages) = 1
    /\ Len(NodeNow.result_messages) = 2

\* The node the i-th NodeState of the list was made for: the list has one
\* NodeState for each node, in the order of the nodes.
OnePerNode ==
    /\ Len(l_in) = MaxNodes
    /\ \A i \in Nodes : l_in[i].name = l_names[i]

\* C38: when the state given to Flow.load_state has one NodeState for each
\* node of the flow, the call returns and every node holds the result and the
\* conversation of its own NodeState.
C38_EveryNodeLoadsItsOwnState ==
    (l_out # "none" /\ OnePerNode) =>
        /\ l_out = "loaded"
        /\ \A n \in Nodes : l_nodes[n] = load_state(l_in[n])

\* The invocations made in the scope now open.
ThisScope == {i \in 1..Len(k_inv) : k_inv[i].scope = k_scope}

\* C39: no two invocations made in one scope of a run resolve the same
\* (task_name, index), and the node-state table holds, under the key of every
\* invocation of the scope that has returned, the result it returned, whatever
\* the order in which the suspended bodies are resumed.
C39_ConcurrentInvocationsKeepApart ==
    /\ \A i, j \in ThisScope :
           (i # j) => <<k_inv[i].task, k_inv[i].index>> # <<k_inv[j].task, k_inv[j].index>>
    /\ \A i \in ThisScope :
           k_inv[i].pc \in {"done", "cached"} =>
               /\ <<k_inv[i].task, k_inv[i].index>> \in DOMAIN k_run.node_states
               /\ ResultOf(get(k_run, k_inv[i].task, k_inv[i].index)) = k_inv[i].ret

\* Of three invocations made in one scope, the first two of one task, the
\* second has returned while the first and the third are suspended in their
\* bodies.
C39_Witness ==
    /\ Len(k_inv) = 3
    /\ k_inv[1].scope = k_inv[3].scope
    /\ k_inv[1].task = k_inv[2].task
    /\ k_inv[1].pc = "body"
    /\ k_inv[2].pc = "done"
    /\ k_inv[3].pc = "body"

\* C40: every NodeState in the node-state table of the run holds at least one
\* result, after any sequence of task invocations, failing ones included, and
\* of refine, ask, edit and undo operations.
C40_StoredStatesHoldAResult ==
    \A k \in DOMAIN t_run.node_states : HasResult(FromJson(t_run.node_states[k]))

\* An invocation whose body failed, on a node the table does not hold, made
\* after an edit of another node.
C40_Witness ==
    /\ t_last.op = "call"
    /\ t_last.body
    /\ t_last.err
    /\ t_last.prev = "edit"
    /\ <<t_last.task, t_last.index>> \notin DOMAIN t_run.node_states
    /\ DOMAIN t_run.node_states # {}

====
